---- MODULE Spec2Model ----
(***************************************************************************)
(* Model of the photon-library binary container of larsim:                 *)
(*   - util::fblock  (FileBlocks.h/.tcc/.cxx): magic keys, block headers,  *)
(*     typed blocks and their byte-level read/write/skip;                  *)
(*   - util::BinaryBlockFile (BinaryBlockFile.h/.tcc/.cxx): the block I/O  *)
(*     manager on one std::fstream;                                        *)
(*   - phot::PhotonLibraryBinaryFileFormat: the library file schema;       *)
(*   - phot::VoxelizedChannelData<float>, phot::BinaryFilePhotonLibrary:   *)
(*     the random-access reader and its bounds-checked front end.          *)
(*                                                                         *)
(* A file is a sequence of bytes (0..255).  A stream is a record           *)
(* [pos, fail, far]: the file position, whether failbit is set, and        *)
(* whether the file system of the file takes very large offsets; all the   *)
(* streams of the code throw on failbit/eofbit, so a failed read ends the  *)
(* operation with an error.  Multi-byte numbers are little endian (host    *)
(* order of the build).                                                    *)
(***************************************************************************)
EXTENDS Integers, Sequences, FiniteSets, TLC

\* ------------------------------------------------------------------------
\* Bounds of the model
\* ------------------------------------------------------------------------
MaxBlocks == 3      \* blocks written to the generic block file
MaxTrunc == 2       \* bytes that may be cut off the end of the block file
MaxOps == 3         \* operations that change the library file

\* ------------------------------------------------------------------------
\* Variables
\* ------------------------------------------------------------------------
VARIABLES
  \* --- the generic block file of BinaryBlockFile_test.cc ---
  bfile,      \* bytes of the test file
  wlog,       \* blocks written so far: [kind, key, val] as given by the caller
  wends,      \* wends[i]: file length after the i-th block was written
  bmode,      \* "write", "cut" (file truncated), "read"
  bstream,    \* fStream of the BinaryBlockFile that reads the file
  rcount,     \* blocks consumed by the reader so far
  fails,      \* read operations that ended with an I/O error
  pend,       \* <<info>> after readBlockHeader, until its payload is handled
  last,       \* the last read operation and its outcome
  farSeek,    \* whether the file system takes offsets of HugeSize and more
  \* --- the photon library file, its writer and its reader ---
  fHeader,    \* PhotonLibraryBinaryFileFormat::fHeader of the writer: <<>> or <<[header, dataOffset]>>
  given,      \* the header passed to the last setHeader
  setok,      \* "none", "ok" (setHeader returned) or "error" (it threw)
  libfile,    \* bytes of the library file
  payload,    \* the data passed to writeFile
  phase,      \* "setup", "written", "reading", "closed"
  lib,        \* the BinaryFilePhotonLibrary object with its lookup table
  fData,      \* VoxelizedChannelData::fData, the stream of the lookups
  fDataMutex, \* owner of VoxelizedChannelData::fDataMutex, 0 when free
  lk,         \* per thread: the lookup it runs or has completed
  exists,     \* whether there is a file at fLibraryPath
  fop,        \* the last operation on the format object and its outcome
  reflfile    \* bytes of the library file of the reflected light

bvars == <<bfile, wlog, wends, bmode, bstream, rcount, fails, pend, last, farSeek>>

lvars == <<fHeader, given, setok, libfile, payload, phase, lib, fData, fDataMutex, lk,
           exists, fop, reflfile>>

vars == <<bfile, wlog, wends, bmode, bstream, rcount, fails, pend, last, farSeek,
          fHeader, given, setok, libfile, payload, phase, lib, fData, fDataMutex, lk,
          exists, fop, reflfile>>

\* ------------------------------------------------------------------------
\* Bytes and numbers
\* ------------------------------------------------------------------------
\* sizes and offsets of HugeSize bytes and more are not told apart: they
\* are beyond every file and every buffer here
HugeSize == 1073741824

Max(a, b) == IF a >= b THEN a ELSE b

\* the element of a set of one element; Only({e(x) : x \in {v}}) is e(v),
\* with v worked out once
Only(S) == CHOOSE x \in S : TRUE

Zeros(n) == [i \in 1..n |-> 0]

RECURSIVE ToBytes(_, _)
\* the n low bytes of the natural v, least significant first (memcpy of an
\* unsigned integer of n bytes)
ToBytes(v, n) == IF n = 0 THEN <<>> ELSE <<v % 256>> \o ToBytes(v \div 256, n - 1)

RECURSIVE FromBytes(_)
\* the natural whose little-endian bytes are b
FromBytes(b) == IF b = <<>> THEN 0 ELSE b[1] + 256 * FromBytes(Tail(b))

Complement(b) == [i \in 1..Len(b) |-> 255 - b[i]]

\* A 32-bit unsigned value u is carried by the integer of -2^31 .. 2^31-1
\* that has the same 32 bits (u itself below 2^31, u - 2^32 from there on).
\* memcpy of an unsigned int:
EncodeUInt(v) == IF v >= 0 THEN ToBytes(v, 4) ELSE Complement(ToBytes(-v - 1, 4))
DecodeUInt(b) == IF b[4] < 128 THEN FromBytes(b) ELSE -FromBytes(Complement(b)) - 1

\* a < b on unsigned int
ULess(a, b) == IF (a < 0) = (b < 0) THEN a < b ELSE b < 0

RECURSIVE MulBytes(_, _, _, _)
\* schoolbook product of two little-endian numbers, byte k onwards, with the
\* carry from the lower bytes; bytes from the fifth on are dropped (mod 2^32)
MulBytes(a, b, k, carry) ==
  IF k > 4 THEN <<>>
  ELSE LET RECURSIVE Col(_)
           Col(i) == IF i > k THEN 0 ELSE a[i] * b[k + 1 - i] + Col(i + 1)
           t == Col(1) + carry
       IN  <<t % 256>> \o MulBytes(a, b, k + 1, t \div 256)

\* a * b on unsigned int (the product wraps modulo 2^32)
MulUInt(a, b) == DecodeUInt(MulBytes(EncodeUInt(a), EncodeUInt(b), 1, 0))

\* memcpy of a 64-bit two's complement value
EncodeLLong(v) == IF v >= 0 THEN ToBytes(v, 8) ELSE Complement(ToBytes(-v - 1, 8))
DecodeLLong(b) == IF b[8] < 128 THEN FromBytes(b) ELSE -FromBytes(Complement(b)) - 1

\* A double is carried by the integer k that stands for k / DblScale cm;
\* every such value below 2^20 / DblScale is a double, and sums and products
\* of them by small counts are exact.
DblScale == 2048

Abs(x) == IF x < 0 THEN -x ELSE x

RECURSIVE Pow2(_)
Pow2(n) == IF n = 0 THEN 1 ELSE 2 * Pow2(n - 1)

RECURSIVE Log2(_)
Log2(a) == IF a < 2 THEN 0 ELSE 1 + Log2(a \div 2)

\* memcpy of a double: IEEE 754 binary64 of k / 2^11, little endian; the 32
\* low bits of the mantissa are zero for these values
EncodeDouble(k) ==
  IF k = 0 THEN Zeros(8)
  ELSE LET a == Abs(k)
           e == Log2(a)
           E == 1023 + e - 11
           m20 == (a - Pow2(e)) * Pow2(20 - e)
       IN  <<0, 0, 0, 0, m20 % 256, (m20 \div 256) % 256,
             (E % 16) * 16 + (m20 \div 65536),
             (IF k < 0 THEN 128 ELSE 0) + (E \div 16)>>

DecodeDouble(b) ==
  LET E == (b[8] % 128) * 16 + (b[7] \div 16)
      m20 == (b[7] % 16) * 65536 + b[6] * 256 + b[5]
      e == E - 1012
      a == Pow2(e) + (m20 \div Pow2(20 - e))
  IN  IF E = 0 THEN 0 ELSE IF b[8] >= 128 THEN -a ELSE a

\* the IEEE 754 binary32 bits of the float with the whole value k >= 0;
\* a float is carried by its bits, which is what the file holds
FloatBits(k) ==
  IF k = 0 THEN 0
  ELSE LET e == Log2(k)
       IN  (127 + e) * Pow2(23) + (k - Pow2(e)) * Pow2(23 - e)

\* ------------------------------------------------------------------------
\* util::fblock: sizes and alignment
\* ------------------------------------------------------------------------
WordSize == 4               \* sizeof(BlockWord_t)
KeySize == WordSize         \* MagicKey::KeySize
BlockSizeBytes == 8         \* sizeof(BlockSize_t)

isAligned(size) == (size % WordSize) = 0

\* a size rounded down to the word
alignedSizeDown(size) == size - (size % WordSize)

\* BlockInfo::alignedSize; a std::size_t of 2^64 - d is carried by -d, so
\* that the sum wraps around as the sum of the code does
alignedSize(size) ==
  LET excess == size % WordSize
  IN  IF excess = 0 THEN size ELSE size - excess + WordSize

paddingSize(size) == alignedSize(size) - size

\* ------------------------------------------------------------------------
\* util::fblock::MagicKey
\* ------------------------------------------------------------------------
NullKey == Zeros(KeySize)

\* MagicKey(std::string_view): the first KeySize characters, NUL filled
MagicKey(key) ==
  LET nKeyChars == IF Len(key) < KeySize THEN Len(key) ELSE KeySize
  IN  [i \in 1..KeySize |-> IF i <= nKeyChars THEN key[i] ELSE 0]

\* operator== (MagicKey, MagicKey)
KeyEq(a, b) == \A i \in 1..KeySize : a[i] = b[i]

\* a text that ends before the first NUL character of the key
MagicKeyViewCString(key) ==
  SubSeq(key, 1, CHOOSE n \in 0..KeySize :
                   /\ \A i \in 1..n : key[i] # 0
                   /\ n < KeySize => key[n + 1] = 0)

\* MagicKey::operator std::string_view(): n goes down from KeySize while the
\* characters from the end are NUL; the first n characters are the text
MagicKeyView(key) ==
  SubSeq(key, 1, CHOOSE n \in 0..KeySize :
                   /\ n > 0 => key[n] # 0
                   /\ \A i \in (n + 1)..KeySize : key[i] = 0)

\* ------------------------------------------------------------------------
\* Streams: details::readData, details::wasteData, details::writeData
\* ------------------------------------------------------------------------
\* a stream just opened on a file; far tells whether the file system of the
\* file takes offsets of HugeSize and more
NewStream(far) == [pos |-> 0, fail |-> FALSE, far |-> far]

\* a read that does not look at the end of the file: what is missing reads
\* as zero and the stream stays good
readDataUnchecked(f, s, n) ==
  [ok |-> TRUE, s |-> [s EXCEPT !.pos = s.pos + n, !.fail = FALSE],
   data |-> [i \in 1..n |-> IF s.pos + i <= Len(f) THEN f[s.pos + i] ELSE 0]]

\* istream::read of n bytes from file f
readData(f, s, n) ==
  IF ~s.fail /\ s.pos + n <= Len(f)
  THEN [ok |-> TRUE, s |-> [s EXCEPT !.pos = s.pos + n],
        data |-> SubSeq(f, s.pos + 1, s.pos + n)]
  ELSE [ok |-> FALSE,
        s |-> [s EXCEPT !.pos = IF s.fail THEN s.pos ELSE Max(s.pos, Len(f)),
                        !.fail = TRUE],
        data |-> <<>>]

\* istream::seekg(n, cur): a file stream may be positioned past its end;
\* whether lseek takes an offset of HugeSize and more is up to the file system
wasteData(f, s, n) ==
  IF ~s.fail /\ (s.pos + n < HugeSize \/ s.far)
  THEN [ok |-> TRUE, s |-> [s EXCEPT !.pos = s.pos + n]]
  ELSE [ok |-> FALSE, s |-> [s EXCEPT !.fail = TRUE]]

\* ostream::write at the end of the file
writeData(f, buffer, n) == f \o SubSeq(buffer, 1, n)

\* ------------------------------------------------------------------------
\* util::fblock::BlockInfo, Version, FileBlock: byte-level I/O
\* ------------------------------------------------------------------------
NullBlockInfo == [key |-> NullKey, size |-> 0]

\* MagicKey::read
KeyRead(f, s) ==
  Only({[ok |-> r.ok, s |-> r.s, key |-> IF r.ok THEN r.data ELSE NullKey] :
          r \in {readData(f, s, KeySize)}})

\* readObj of a BlockSize_t (std::uint64_t)
DecodeSize(b) ==
  IF b[4] < 64 /\ \A i \in 5..8 : b[i] = 0
  THEN FromBytes(SubSeq(b, 1, 4))
  ELSE HugeSize

\* BlockInfo::read: key, then size
BlockInfoRead(f, s) ==
  Only({Only({IF k.ok /\ z.ok
              THEN [ok |-> TRUE, s |-> z.s, key |-> k.key,
                    size |-> DecodeSize(z.data)]
              ELSE [ok |-> FALSE, s |-> IF k.ok THEN z.s ELSE k.s,
                    key |-> NullKey, size |-> 0] :
                z \in {readData(f, k.s, BlockSizeBytes)}}) :
          k \in {KeyRead(f, s)}})

\* BlockInfo::write
BlockInfoWrite(f, info) ==
  writeData(writeData(f, info.key, KeySize), ToBytes(info.size, BlockSizeBytes),
            BlockSizeBytes)

\* a skip of size() bytes, the padding left in the stream
BlockInfoSkipPayloadUnaligned(f, s, info) == wasteData(f, s, info.size)

\* BlockInfo::skipPayload
BlockInfoSkipPayload(f, s, info) == wasteData(f, s, alignedSize(info.size))

\* Version::read: key, then one word
VersionRead(f, s) ==
  Only({Only({IF k.ok /\ v.ok
              THEN [ok |-> TRUE, s |-> v.s, key |-> k.key,
                    version |-> DecodeUInt(v.data)]
              ELSE [ok |-> FALSE, s |-> IF k.ok THEN v.s ELSE k.s,
                    key |-> MagicKey(<<86, 69, 82, 83>>), version |-> 0] :
                v \in {readData(f, k.s, WordSize)}}) :
          k \in {KeyRead(f, s)}})

\* Version::write
VersionWrite(f, key, version) ==
  writeData(writeData(f, key, KeySize), EncodeUInt(version), WordSize)

\* a payload written without its padding
writeBlockPayloadNoPadding(f, info, data) == writeData(f, data, info.size)

\* util::fblock::writeBlockPayload: the data, then NUL padding
writeBlockPayload(f, info, data) ==
  writeData(writeData(f, data, info.size), Zeros(WordSize), paddingSize(info.size))

\* util::fblock::writeBlockAndPayload
writeBlockAndPayload(f, info, data) ==
  writeBlockPayload(BlockInfoWrite(f, info), info, data)

\* a payload read that leaves the padding in the stream
FileBlockReadPayloadNoPadding(f, s, info) ==
  Only({[ok |-> d.ok, s |-> d.s, key |-> info.key, size |-> info.size,
         payload |-> IF d.ok THEN d.data ELSE Zeros(0)] :
          d \in {readData(f, s, info.size)}})

\* FileBlock::readPayload: allocate, read the payload, skip the padding;
\* allocate() throws when asked for HugeSize bytes and more
FileBlockReadPayload(f, s, info) ==
  IF info.size >= HugeSize
  THEN [ok |-> FALSE, s |-> s, key |-> info.key, size |-> info.size,
        payload |-> Zeros(0)]
  ELSE Only({Only({[ok |-> d.ok /\ w.ok, s |-> IF d.ok THEN w.s ELSE d.s,
                    key |-> info.key, size |-> info.size,
                    payload |-> IF d.ok THEN d.data ELSE Zeros(0)] :
                     w \in {wasteData(f, d.s, paddingSize(info.size))}}) :
               d \in {readData(f, s, info.size)}})

\* FileBlock::read
FileBlockRead(f, s) ==
  Only({IF h.ok THEN FileBlockReadPayload(f, h.s, h)
        ELSE [ok |-> FALSE, s |-> h.s, key |-> NullKey, size |-> 0,
              payload |-> <<>>] :
          h \in {BlockInfoRead(f, s)}})

\* a bookmark that takes the header only and refuses a size that is not 0
BookmarkReadStrict(f, s) ==
  Only({IF h.ok /\ h.size = 0
        THEN [ok |-> TRUE, s |-> h.s, key |-> h.key, size |-> 0, payload |-> <<>>]
        ELSE [ok |-> FALSE, s |-> h.s, key |-> NullKey, size |-> 0,
              payload |-> <<>>] :
          h \in {BlockInfoRead(f, s)}})

\* Bookmark has no read() of its own: FileBlock::read
BookmarkRead(f, s) == FileBlockRead(f, s)

\* FileBlock::read on a block object whose payload buffer holds old.  When
\* the header cannot be read, BlockInfo::read resets it and the payload is
\* cleared; when the header was read, allocate() resizes the buffer, which
\* keeps what it held and fills the rest with 0, and istream::read stores
\* the bytes that the stream still has.
FileBlockReadOver(f, s, old) ==
  Only({IF ~h.ok
        THEN [ok |-> FALSE, s |-> h.s, key |-> NullKey, size |-> 0,
              payload |-> <<>>]
        ELSE IF h.size >= HugeSize
        THEN [ok |-> FALSE, s |-> h.s, key |-> h.key, size |-> h.size,
              payload |-> old]
        ELSE Only({[r EXCEPT !.payload =
                      IF Len(r.payload) = h.size THEN r.payload
                      ELSE [i \in 1..h.size |->
                              IF h.s.pos + i <= Len(f) THEN f[h.s.pos + i]
                              ELSE IF i <= Len(old) THEN old[i] ELSE 0]] :
                     r \in {FileBlockReadPayload(f, h.s, h)}}) :
          h \in {BlockInfoRead(f, s)}})

\* FileBlock::write: the header and the padded payload go to the end of
\* the stream
FileBlockWrite(f, block) ==
  f \o writeBlockAndPayload(<<>>, [key |-> block.key, size |-> block.size],
                            block.payload)

\* ------------------------------------------------------------------------
\* Typed blocks: util::fblock::String, Number<T>, Bookmark
\* ------------------------------------------------------------------------
\* sizeof(Value_t) of the Number<T> instantiations in use
ValueSize(T) == IF T = "Short" THEN 2 ELSE IF T = "UInt" THEN 4 ELSE 8

\* sizeof(StoredType_t): an integer type narrower than a word is stored as
\* the word of its signedness, every other type as it is
StoredSize(T) == IF ValueSize(T) < WordSize THEN WordSize ELSE ValueSize(T)

\* FileBlock(BlockInfo const&): allocate() gives a zero-filled payload
FileBlockNew(key, size) == [key |-> key, size |-> size, payload |-> Zeros(size)]

\* FileBlock::setPayload(T const*): copies fPayload.size() bytes
setPayload(block, buffer) ==
  [block EXCEPT !.payload = SubSeq(buffer, 1, Len(block.payload))]

\* String(MagicKey const&, std::string const&)
StringBlock(key, str) == setPayload(FileBlockNew(MagicKey(key), Len(str)), str)

RECURSIVE makeView(_)
\* String::makeView: drops the NUL characters at the end
makeView(chars) ==
  IF chars # <<>> /\ chars[Len(chars)] = 0
  THEN makeView(SubSeq(chars, 1, Len(chars) - 1))
  ELSE chars

\* a str() that ends the string at the last character that is not NUL
StringStrTrimmed(block) == makeView(SubSeq(block.payload, 1, block.size))

\* String::str(): the bytes from begin() to end() = begin() + sizeAs<char>()
StringStr(block) == SubSeq(block.payload, 1, block.size)

\* String::string_view()
StringView(block) == makeView(StringStr(block))

\* static_cast<StoredType_t>(v) as bytes
StoredBytes(T, v) ==
  IF T \in {"Short", "UInt"} THEN EncodeUInt(v)
  ELSE IF T = "Double" THEN EncodeDouble(v)
  ELSE EncodeLLong(v)

\* Number<T>::Number(MagicKey const&, Value_t): FileBlock{{key, ValueSize}}, set(v)
NumberBlock(T, key, v) ==
  setPayload(FileBlockNew(MagicKey(key), ValueSize(T)), StoredBytes(T, v))

\* static_cast<short>() of the word stored in b: its 16 low bits, signed
DecodeShort(b) ==
  IF b[2] < 128 THEN FromBytes(SubSeq(b, 1, 2))
  ELSE FromBytes(SubSeq(b, 1, 2)) - 65536

\* a value() that takes the stored integer for unsigned
NumberValueUnsigned(T, block) ==
  IF T = "UInt" THEN DecodeUInt(SubSeq(block.payload, 1, 4))
  ELSE IF T = "Double" THEN DecodeDouble(SubSeq(block.payload, 1, 8))
  ELSE Abs(DecodeLLong(SubSeq(block.payload, 1, 8)))

\* Number<T>::value(): payloadAs<StoredType_t>()
NumberValue(T, block) ==
  IF T = "Short" THEN DecodeShort(SubSeq(block.payload, 1, 4))
  ELSE IF T = "UInt" THEN DecodeUInt(SubSeq(block.payload, 1, 4))
  ELSE IF T = "Double" THEN DecodeDouble(SubSeq(block.payload, 1, 8))
  ELSE DecodeLLong(SubSeq(block.payload, 1, 8))

\* Bookmark(MagicKey const&): FileBlock(BlockInfo{key})
BookmarkBlock(key) == FileBlockNew(MagicKey(key), 0)

\* ------------------------------------------------------------------------
\* util::BinaryBlockFile: read, skip and key check on the stream
\* Results: [err, s, key, size, payload, version]; err is "none", "io"
\* (the read failed: an exception leaves the call) or "key" (keyCheck threw).
\* ------------------------------------------------------------------------
NoKey == {}                          \* call without expectedKey

\* BinaryBlockFile::readBlock<Block>(blockType)
readBlock(f, s, Block) ==
  IF Block = "Version"
  THEN Only({[err |-> IF r.ok THEN "none" ELSE "io", s |-> r.s, key |-> r.key,
              size |-> 0, payload |-> <<>>, version |-> r.version] :
               r \in {VersionRead(f, s)}})
  ELSE IF Block = "BlockInfo"
  THEN Only({[err |-> IF r.ok THEN "none" ELSE "io", s |-> r.s, key |-> r.key,
              size |-> r.size, payload |-> <<>>, version |-> 0] :
               r \in {BlockInfoRead(f, s)}})
  ELSE IF Block = "Bookmark"
  THEN Only({[err |-> IF r.ok THEN "none" ELSE "io", s |-> r.s, key |-> r.key,
              size |-> r.size, payload |-> r.payload, version |-> 0] :
               r \in {BookmarkRead(f, s)}})
  ELSE Only({[err |-> IF r.ok THEN "none" ELSE "io", s |-> r.s, key |-> r.key,
              size |-> r.size, payload |-> r.payload, version |-> 0] :
               r \in {FileBlockRead(f, s)}})

\* a key check that looks at the first character only
keyCheckFirst(block, expectedKey) ==
  IF block.err = "none" /\ block.key[1] # MagicKey(expectedKey)[1]
  THEN [block EXCEPT !.err = "key"]
  ELSE block

\* BinaryBlockFile::keyCheck
keyCheck(block, expectedKey) ==
  IF block.err = "none" /\ ~KeyEq(block.key, MagicKey(expectedKey))
  THEN [block EXCEPT !.err = "key"]
  ELSE block

\* BinaryBlockFile::readBlock<Block>(expectedKey, blockType); expected is
\* NoKey or {expectedKey}
readBlockKey(f, s, Block, expected) ==
  Only({IF expected = NoKey THEN block
        ELSE keyCheck(block, CHOOSE k \in expected : TRUE) :
          block \in {readBlock(f, s, Block)}})

\* BinaryBlockFile::readVersion
readVersion(f, s, expected) == readBlockKey(f, s, "Version", expected)

\* BinaryBlockFile::readBlockHeader
readBlockHeader(f, s, expected) == readBlockKey(f, s, "BlockInfo", expected)

\* BinaryBlockFile::skipPayload(BlockInfo const&, blockType)
skipPayload(f, s, info) ==
  Only({[err |-> IF w.ok THEN "none" ELSE "io", s |-> w.s, key |-> info.key,
         size |-> info.size, payload |-> <<>>, version |-> 0] :
          w \in {BlockInfoSkipPayload(f, s, info)}})

\* BinaryBlockFile::skipBlock: skipPayload(readBlockHeader(...))
skipBlock(f, s, expected) ==
  Only({IF h.err = "none" THEN skipPayload(f, h.s, h) ELSE h :
          h \in {readBlockHeader(f, s, expected)}})

\* BinaryBlockFile::readPayload<Block>(info): Block{info}, readPayload(fStream)
readPayload(f, s, info) ==
  Only({[err |-> IF r.ok THEN "none" ELSE "io", s |-> r.s, key |-> r.key,
         size |-> r.size, payload |-> r.payload, version |-> 0] :
          r \in {FileBlockReadPayload(f, s, info)}})

\* ========================================================================
\* phot::PhotonLibraryBinaryFileFormat: the photon library file
\* A header is [version, configuration, nEntries, nChannels, nVoxels, axes],
\* axes being three records [nSteps, lower, upper, step].
\* ========================================================================
DefaultFormatVersion == -1           \* numeric_limits<Version_t>::max(): all 32 bits set
UndefinedFormatVersion == 0
\* the version after the latest
NextFormatVersion == UndefinedFormatVersion + 2
LatestFormatVersion == 1
NAxes == 3

KeyPLIB == <<80, 76, 73, 66>>              \* "PLIB"
KeyCNFG == <<67, 78, 70, 71>>              \* "CNFG"
KeyNTRY == <<78, 84, 82, 89>>              \* "NTRY"
KeyNCHN == <<78, 67, 72, 78>>              \* "NCHN"
KeyNVXL == <<78, 86, 88, 76>>              \* "NVXL"
KeyPHVS == <<80, 72, 86, 83>>              \* "PHVS"
KeyDONE == <<68, 79, 78, 69>>              \* "DONE"
KeyAXI == <<65, 88, 73>>                   \* "AXI"
KeyNBO == <<78, 66, 79>>                   \* "NBO"
KeyMIN == <<77, 73, 78>>                   \* "MIN"
KeyMAX == <<77, 65, 88>>                   \* "MAX"
KeySTE == <<83, 84, 69>>                   \* "STE"
KeyEND == <<69, 78, 68>>                   \* "END"

AxisNames == <<120, 121, 122>>             \* 'x', 'y', 'z'

\* std::toupper
toupper(c) == IF c \in 97..122 THEN c - 32 ELSE c

\* a key with the letter of the first axis, whatever the axis
AxisKeyFirst(prefix, iAxis) == prefix \o <<toupper(AxisNames[1])>>

\* "AXI" + Letter and the like
AxisKey(prefix, iAxis) == prefix \o <<toupper(AxisNames[iAxis])>>

\* HeaderSettings_t{}: the members' default initializers
NullAxis == [nSteps |-> 0, lower |-> 0, upper |-> 0, step |-> 0]
NullHeader ==
  [version |-> UndefinedFormatVersion, configuration |-> <<>>, nEntries |-> 0,
   nChannels |-> 0, nVoxels |-> 0, axes |-> [i \in 1..NAxes |-> NullAxis]]

\* HeaderInfo_t::dataOffset before a file is read: pos_type's maximum
NoOffset == -1

\* lar::util::RealComparisons{ 1e-3 }.nonEqual(a, b): |a - b| > 1e-3, on
\* values in units of 1 / DblScale
nonEqual(a, b) == Abs(a - b) * 1000 > DblScale

\* the size in bytes, not in elements
sizeAsBytes(info, n) == info.size

\* BlockInfo::sizeAs<T>(): size() / sizeof(T)
sizeAs(info, n) == info.size \div n

\* a fixHeader that leaves the version as it was given
fixHeaderKeepVersion(h) ==
  LET header == h
      RECURSIVE nVoxels(_)
      nVoxels(i) == IF i = 0 THEN 1
                    ELSE MulUInt(nVoxels(i - 1), header.axes[i].nSteps)
      expectedUpper(axis) == axis.lower + axis.step * axis.nSteps
      nEntries == MulUInt(header.nVoxels, header.nChannels)
  IN  [ok |-> /\ \A i \in 1..NAxes :
                   ~nonEqual(header.axes[i].upper, expectedUpper(header.axes[i]))
              /\ nVoxels(NAxes) = header.nVoxels
              /\ nEntries = header.nEntries,
       header |-> header]

\* fixHeader(): [ok, header]; header is what fHeader holds afterwards, ok
\* is false when the function throws
fixHeader(h) ==
  LET header == IF h.version = DefaultFormatVersion
                THEN [h EXCEPT !.version = LatestFormatVersion] ELSE h
      RECURSIVE nVoxels(_)
      nVoxels(i) == IF i = 0 THEN 1
                    ELSE MulUInt(nVoxels(i - 1), header.axes[i].nSteps)
      expectedUpper(axis) == axis.lower + axis.step * axis.nSteps
      nEntries == MulUInt(header.nVoxels, header.nChannels)
  IN  [ok |-> /\ \A i \in 1..NAxes :
                   ~nonEqual(header.axes[i].upper, expectedUpper(header.axes[i]))
              /\ nVoxels(NAxes) = header.nVoxels
              /\ nEntries = header.nEntries,
       header |-> header]

\* setHeader(header): emplace, copy, fixHeader; [ok, fHeader]
setHeader(h) ==
  Only({[ok |-> fix.ok,
         fHeader |-> <<[header |-> fix.header, dataOffset |-> NoOffset]>>] :
          fix \in {fixHeader(h)}})

\* the blocks of one axis in writeHeader(destFile)
WriteAxis(f, axis, iAxis) ==
  LET f1 == FileBlockWrite(f, BookmarkBlock(AxisKey(KeyAXI, iAxis)))
      f2 == FileBlockWrite(f1, NumberBlock("UInt", AxisKey(KeyNBO, iAxis), axis.nSteps))
      f3 == FileBlockWrite(f2, NumberBlock("Double", AxisKey(KeyMIN, iAxis), axis.lower))
      f4 == FileBlockWrite(f3, NumberBlock("Double", AxisKey(KeyMAX, iAxis), axis.upper))
      f5 == FileBlockWrite(f4, NumberBlock("Double", AxisKey(KeySTE, iAxis), axis.step))
  IN  FileBlockWrite(f5, BookmarkBlock(AxisKey(KeyEND, iAxis)))

\* writeHeader(destFile) with a header present
writeHeader(f, header) ==
  LET plib == VersionWrite(f, MagicKey(KeyPLIB), header.version)
      cnfg == FileBlockWrite(plib, StringBlock(KeyCNFG, header.configuration))
      ntry == FileBlockWrite(cnfg, NumberBlock("UInt", KeyNTRY, header.nEntries))
      nchn == FileBlockWrite(ntry, NumberBlock("UInt", KeyNCHN, header.nChannels))
      nvxl == FileBlockWrite(nchn, NumberBlock("UInt", KeyNVXL, header.nVoxels))
      x    == WriteAxis(nvxl, header.axes[1], 1)
      y    == WriteAxis(x, header.axes[2], 2)
  IN  WriteAxis(y, header.axes[3], 3)

RECURSIVE FloatBytes(_)
\* data.data() of a std::vector<float> as bytes
FloatBytes(data) ==
  IF data = <<>> THEN <<>> ELSE EncodeUInt(Head(data)) \o FloatBytes(Tail(data))

RECURSIVE FloatsOf(_)
\* a buffer of bytes read from the file as an array of float
FloatsOf(bytes) ==
  IF Len(bytes) < 4 THEN <<>>
  ELSE <<DecodeUInt(SubSeq(bytes, 1, 4))>> \o FloatsOf(SubSeq(bytes, 5, Len(bytes)))

\* writeData(destFile, data): writeBlockAndPayload({ "PHVS", size * 4 }, data)
writeVisibilityData(f, data) ==
  writeBlockAndPayload(f, [key |-> MagicKey(KeyPHVS), size |-> Len(data) * 4],
                       FloatBytes(data))

\* a footer written after seeking back to the start of the file
writeFooterAtStart(f) ==
  FileBlockWrite(<<>>, BookmarkBlock(KeyDONE))
    \o SubSeq(f, KeySize + BlockSizeBytes + 1, Len(f))

\* writeFooter(destFile)
writeFooter(f) == FileBlockWrite(f, BookmarkBlock(KeyDONE))

\* writeFile(data) on an object that holds held (<<>> or <<header info>>):
\* the file is opened with std::ios::trunc, then header, data and footer
\* are written; without a header writeHeader throws and the file stays
\* empty.  [ok, file]
writeFile(held, data) ==
  IF held = <<>> THEN [ok |-> FALSE, file |-> <<>>]
  ELSE [ok |-> TRUE,
        file |-> writeFooter(writeVisibilityData(
                   writeHeader(<<>>, held[1].header), data))]

\* the blocks of one axis in readHeader(), in the order in which they are
\* read: the type to read and the expected key
AxisBlocks(iAxis) ==
  <<[Block |-> "FileBlock", key |-> AxisKey(KeyAXI, iAxis)],
    [Block |-> "FileBlock", key |-> AxisKey(KeyNBO, iAxis)],
    [Block |-> "FileBlock", key |-> AxisKey(KeyMIN, iAxis)],
    [Block |-> "FileBlock", key |-> AxisKey(KeyMAX, iAxis)],
    [Block |-> "FileBlock", key |-> AxisKey(KeySTE, iAxis)],
    [Block |-> "FileBlock", key |-> AxisKey(KeyEND, iAxis)]>>

\* the blocks that readHeader() reads before the visibility data
HeaderBlocks ==
  <<[Block |-> "Version", key |-> KeyPLIB],
    [Block |-> "FileBlock", key |-> KeyCNFG],
    [Block |-> "FileBlock", key |-> KeyNTRY],
    [Block |-> "FileBlock", key |-> KeyNCHN],
    [Block |-> "FileBlock", key |-> KeyNVXL]>>
  \o AxisBlocks(1) \o AxisBlocks(2) \o AxisBlocks(3)

RECURSIVE readBlocks(_, _, _, _)
\* the reads of blocks[i], blocks[i + 1], ... one after the other, each with
\* its expected key: the blocks read; the first read that throws is the
\* last one
readBlocks(f, s, blocks, i) ==
  IF i > Len(blocks) THEN <<>>
  ELSE Only({IF b.err = "none"
             THEN <<b>> \o readBlocks(f, b.s, blocks, i + 1)
             ELSE <<b>> :
               b \in {readBlockKey(f, s, blocks[i].Block, {blocks[i].key})}})

\* the axis iAxis in readHeader(), from the blocks b read for HeaderBlocks
ReadAxis(b, iAxis) ==
  [nSteps |-> NumberValue("UInt", b[6 * iAxis + 1]),
   lower |-> NumberValue("Double", b[6 * iAxis + 2]),
   upper |-> NumberValue("Double", b[6 * iAxis + 3]),
   step |-> NumberValue("Double", b[6 * iAxis + 4])]

\* readHeader() leaving with an exception and without fHeader.reset(): the
\* header emplaced before the try block stays
readHeaderKept(reads) ==
  [ok |-> FALSE, fHeader |-> <<[header |-> NullHeader, dataOffset |-> 0]>>,
   reads |-> reads]

\* readHeader() after the catch block: fHeader is reset and the exception
\* leaves the function; reads block reads were made
readHeaderFailed(reads) == [ok |-> FALSE, fHeader |-> <<>>, reads |-> reads]

\* readHeader() on a file that could be opened: [ok, fHeader, reads], reads
\* being the number of readVersion/readBlock/readBlockHeader calls made.
\* v: the version block, checked before anything else is read; b: the blocks
\* before the visibility data; then the header of the data block is read
\* and checked, the data are skipped and the end bookmark is read.
readHeader(f, far) ==
  Only({
    IF \/ v.err # "none"
       \/ v.version = UndefinedFormatVersion
       \/ ULess(LatestFormatVersion, v.version)
    THEN readHeaderFailed(1)
    ELSE
      Only({
        IF Len(b) < Len(HeaderBlocks) \/ b[Len(b)].err # "none"
        THEN readHeaderFailed(Len(b))
        ELSE
          Only({Only({Only({
            IF \/ dataBlockInfo.err # "none"
               \/ sizeAs(dataBlockInfo, 4) # NumberValue("UInt", b[3])
               \/ skip.err # "none"
            THEN readHeaderFailed(Len(b) + 1)
            ELSE IF done.err # "none"
            THEN readHeaderFailed(Len(b) + 2)
            ELSE [ok |-> TRUE,
                  fHeader |-> <<[header |->
                                   [version |-> b[1].version,
                                    configuration |-> StringStr(b[2]),
                                    nEntries |-> NumberValue("UInt", b[3]),
                                    nChannels |-> NumberValue("UInt", b[4]),
                                    nVoxels |-> NumberValue("UInt", b[5]),
                                    axes |-> [iAxis \in 1..NAxes |-> ReadAxis(b, iAxis)]],
                                 dataOffset |-> dataBlockInfo.s.pos]>>,
                  reads |-> Len(b) + 2] :
              done \in {readBlockKey(f, skip.s, "FileBlock", {KeyDONE})}}) :
              skip \in {skipPayload(f, dataBlockInfo.s, dataBlockInfo)}}) :
              dataBlockInfo \in {readBlockHeader(f, b[Len(b)].s, {KeyPHVS})}}) :
          b \in {<<v>> \o readBlocks(f, v.s, HeaderBlocks, 2)}}) :
      v \in {readBlockKey(f, NewStream(far), HeaderBlocks[1].Block,
                          {HeaderBlocks[1].key})}})

\* ========================================================================
\* phot::VoxelizedChannelData<float> and phot::BinaryFilePhotonLibrary
\* ========================================================================
DataSize == 4                        \* sizeof(Data_t), Data_t = float

\* VoxelizedChannelData before/without a successful construction
NoTable == [open |-> FALSE, fNVoxels |-> 0, fNChannels |-> 0,
            fDataOffset |-> 0, fMetadata |-> NullHeader]

\* VoxelizedChannelData(fileName): readHeader() on a fresh format object,
\* then the members are set and fData is opened; [ok, table]
VoxelizedChannelData(f, far) ==
  Only({IF r.ok
        THEN [ok |-> TRUE,
              table |-> [open |-> TRUE,
                         fNVoxels |-> r.fHeader[1].header.nVoxels,
                         fNChannels |-> r.fHeader[1].header.nChannels,
                         fDataOffset |-> r.fHeader[1].dataOffset,
                         fMetadata |-> r.fHeader[1].header]]
        ELSE [ok |-> FALSE, table |-> NoTable] :
          r \in {readHeader(f, far)}})

\* getIndex(voxel): voxel * fNChannels
getIndex(table, voxel) == voxel * table.fNChannels

\* getIndex(voxel, channel)
getIndex2(table, voxel, channel) == getIndex(table, voxel) + channel

\* a position counted from the start of the file
getPositionNoOffset(table, index) == index * DataSize

\* getPosition(index): fDataOffset + index * sizeof(Data_t)
getPosition(table, index) == table.fDataOffset + index * DataSize

\* BinaryFilePhotonLibrary before/without a successful construction
NoLibrary == [open |-> FALSE, fHasReflected |-> FALSE, fLookupTable |-> NoTable,
              fReflLookupTable |-> NoTable, fNVoxels |-> 0, fNOpChannels |-> 0]

\* BinaryFilePhotonLibrary(DirectVisibilityPlainFilePath): the table is
\* loaded, fNVoxels = NVoxels() and fNOpChannels = NChannels(); [ok, lib]
BinaryFilePhotonLibrary(f, far) ==
  Only({IF r.ok
        THEN [ok |-> TRUE,
              lib |-> [open |-> TRUE, fHasReflected |-> FALSE,
                       fLookupTable |-> r.table, fReflLookupTable |-> NoTable,
                       fNVoxels |-> r.table.fNVoxels,
                       fNOpChannels |-> r.table.fNChannels]]
        ELSE [ok |-> FALSE, lib |-> NoLibrary] :
          r \in {VoxelizedChannelData(f, far)}})

\* VoxelizedChannelData::NData(): NVoxels() * NChannels(), a product of
\* unsigned int
NData(table) == MulUInt(table.fNVoxels, table.fNChannels)

\* BinaryFilePhotonLibrary(DirectVisibilityPlainFilePath,
\* ReflectedVisibilityPlainFilePath) with a reflected path that is not
\* empty: both tables are loaded, then their NData() are compared
BinaryFilePhotonLibraryRefl(direct, reflected, far) ==
  Only({IF ~d.ok \/ ~r.ok THEN [ok |-> FALSE, lib |-> NoLibrary]
        ELSE IF NData(r.table) # NData(d.table)
        THEN [ok |-> FALSE, lib |-> NoLibrary]
        ELSE [ok |-> TRUE,
              lib |-> [open |-> TRUE, fHasReflected |-> TRUE,
                       fLookupTable |-> d.table, fReflLookupTable |-> r.table,
                       fNVoxels |-> d.table.fNVoxels,
                       fNOpChannels |-> d.table.fNChannels]] :
          d \in {VoxelizedChannelData(direct, far)},
          r \in {VoxelizedChannelData(reflected, far)}})

\* a voxel check that lets the first voxel after the last through
isVoxelValidInclusive(library, Voxel) == Voxel <= library.fNVoxels

\* BinaryFilePhotonLibrary::isVoxelValidImpl: Voxel < fNVoxels
isVoxelValidImpl(library, Voxel) == Voxel < library.fNVoxels

\* a condition that does not look at the channel
isEntryValidVoxelOnly(library, voxel, opChannel) == isVoxelValidImpl(library, voxel)

\* the condition of getTableCount
isEntryValid(library, voxel, opChannel) ==
  isVoxelValidImpl(library, voxel) /\ opChannel < library.fNOpChannels

\* a build without the lock: nothing to wait for
MutexIgnored(mutex) == TRUE

\* std::lock_guard lock(*fDataMutex) goes on when no thread owns the mutex
MutexFree(mutex) == mutex = 0

\* ========================================================================
\* State
\* ========================================================================
NumThreads == 2     \* threads that look values up in one library
Threads == 1..NumThreads

\* lk[t] of a thread that has not called yet
NoLookup == [pc |-> "idle", fn |-> "none", voxel |-> 0, channel |-> 0,
             index |-> 0, n |-> 0, seeks |-> 0, reads |-> 0, at |-> 0,
             nbytes |-> 0, out |-> "none", res |-> <<>>]

\* ------------------------------------------------------------------------
\* Inputs of the block file test (TestKeys/TestData of the test, with
\* sizes that need 0, 1, 2 and 3 bytes of padding)
\* ------------------------------------------------------------------------
MaxFails == 2       \* failed read attempts the reader makes before giving up

KeyTEST == <<84, 69, 83, 84>>              \* "TEST"
KeySTR1 == <<83, 84, 82, 49>>              \* "STR1"
KeyNUM1 == <<78, 85, 77, 49>>              \* "NUM1"
KeyNUM2 == <<78, 85, 77, 50>>              \* "NUM2"
KeyMRK == <<77, 75>>                       \* "MK": shorter than a key
KeyDATA == <<68, 65, 84, 65, 50>>          \* "DATA2": longer than a key
KeyNOPE == <<78, 79, 80, 69>>              \* "NOPE": never written

Versions == {[kind |-> "Version", key |-> KeyTEST, val |-> 2]}
Strings == {[kind |-> "String", key |-> KeySTR1, val |-> <<104, 101, 108, 108, 111>>],
            [kind |-> "String", key |-> KeySTR1, val |-> <<97, 0>>]}
UInts == {[kind |-> "UInt", key |-> KeyNUM1, val |-> 258]}
LLongs == {[kind |-> "LLong", key |-> KeyNUM2, val |-> -2]}
Bookmarks == {[kind |-> "Bookmark", key |-> KeyMRK, val |-> <<>>]}
Blobs == {[kind |-> "Blob", key |-> KeyDATA, val |-> <<1, 2, 3, 4, 5, 6, 7>>]}

NoOp == [op |-> "none", index |-> 0, from |-> 0, to |-> 0, exp |-> NoKey,
         err |-> "none", key |-> NullKey, size |-> 0, val |-> <<>>, view |-> <<>>]

\* the last operation on the format object: its name, whether it returned
\* (ok) or threw, the block reads it made, whether fHeader held a header
\* (had) and whether the file was there (was) when it was called, the
\* number of operations so far that changed the file, and how far the calls
\* writeHeader(), writeData(data), writeFooter() have come one after the
\* other (path: 1, 2, 3; 0 when the last calls are not of that sequence)
NoFormatOp == [op |-> "none", ok |-> TRUE, reads |-> 0, had |-> FALSE,
               was |-> FALSE, n |-> 0, path |-> 0]

\* no block file test in progress
BInit ==
  /\ farSeek \in BOOLEAN
  /\ bfile = <<>>
  /\ wlog = <<>>
  /\ wends = <<>>
  /\ bmode = "write"
  /\ bstream = NewStream(farSeek)
  /\ rcount = 0
  /\ fails = 0
  /\ pend = <<>>
  /\ last = NoOp

\* a format object without header, no library file, no reader
LInit ==
  /\ fHeader = <<>>
  /\ given = NullHeader
  /\ setok = "none"
  /\ libfile = <<>>
  /\ payload = <<>>
  /\ phase = "setup"
  /\ lib = NoLibrary
  /\ fData = NewStream(farSeek)
  /\ fDataMutex = 0
  /\ lk = [t \in Threads |-> NoLookup]
  /\ exists = FALSE
  /\ fop = NoFormatOp
  /\ reflfile = <<>>

Init == BInit /\ LInit

\* ------------------------------------------------------------------------
\* WriterTest: the write operations of BinaryBlockFile
\* ------------------------------------------------------------------------
\* bookkeeping of one write: block is the object handed to the stream
Written(b, block, f) ==
  /\ bmode = "write"
  /\ Len(wlog) < MaxBlocks
  /\ bfile' = f
  /\ wlog' = Append(wlog, [kind |-> b.kind, key |-> b.key, val |-> b.val,
                           bkey |-> block.key, size |-> block.size])
  /\ wends' = Append(wends, Len(f))
  /\ UNCHANGED <<bmode, bstream, rcount, fails, pend, last, farSeek>>
  /\ UNCHANGED lvars

\* writeBlock<Version>(key, version)
WriteVersion == \E b \in Versions :
  \E block \in {[key |-> MagicKey(b.key), size |-> 0]} :
  \E f \in {VersionWrite(bfile, block.key, b.val)} :
    Written(b, block, f)

\* writeBlock<String>(key, str)
WriteString == \E b \in Strings :
  \E block \in {StringBlock(b.key, b.val)} :
  \E f \in {FileBlockWrite(bfile, block)} :
    Written(b, block, f)

\* writeBlock<Number<unsigned int>>(key, value)
WriteUInt == \E b \in UInts :
  \E block \in {NumberBlock("UInt", b.key, b.val)} :
  \E f \in {FileBlockWrite(bfile, block)} :
    Written(b, block, f)

\* writeBlock<Number<long long int>>(key, value)
WriteLLong == \E b \in LLongs :
  \E block \in {NumberBlock("LLong", b.key, b.val)} :
  \E f \in {FileBlockWrite(bfile, block)} :
    Written(b, block, f)

\* writeBlock<Bookmark>(key)
WriteBookmark == \E b \in Bookmarks :
  \E block \in {BookmarkBlock(b.key)} :
  \E f \in {FileBlockWrite(bfile, block)} :
    Written(b, block, f)

\* writeBlockAndPayload({ key, size }, data)
WriteBlob == \E b \in Blobs :
  \E info \in {[key |-> MagicKey(b.key), size |-> Len(b.val)]} :
  \E f \in {writeBlockAndPayload(bfile, info, b.val)} :
    Written(b, info, f)

\* the file loses its last k bytes before it is read (a damaged copy)
Truncate == \E k \in 1..MaxTrunc :
  /\ bmode = "write"
  /\ wlog # <<>>
  /\ k <= Len(bfile)
  /\ bfile' = SubSeq(bfile, 1, Len(bfile) - k)
  /\ bmode' = "cut"
  /\ UNCHANGED <<wlog, wends, bstream, rcount, fails, pend, last, farSeek>>
  /\ UNCHANGED lvars

\* BinaryBlockFile(path, std::ios::in): open, exceptions(...), seekg(0)
OpenRead ==
  /\ bmode \in {"write", "cut"}
  /\ wlog # <<>>
  /\ bmode' = "read"
  /\ bstream' = NewStream(farSeek)
  /\ UNCHANGED <<bfile, wlog, wends, rcount, fails, pend, last, farSeek>>
  /\ UNCHANGED lvars

\* ------------------------------------------------------------------------
\* TestFileTest: the read operations of BinaryBlockFile.  The reader knows
\* the layout: it reads a version with readVersion and any other block with
\* readBlock<its type>, skipBlock or readBlockHeader + payload; it may
\* pass no expected key, the key that was written, or another key.
\* ------------------------------------------------------------------------
NextKind == IF rcount < Len(wlog) THEN wlog[rcount + 1].kind ELSE "none"

Expectations ==
  {NoKey, {KeyNOPE}} \cup (IF rcount < Len(wlog) THEN {{wlog[rcount + 1].key}} ELSE {})

CanRead ==
  /\ bmode = "read"
  /\ pend = <<>>
  /\ fails < MaxFails
  /\ rcount <= Len(wlog)

\* what the caller gets from the block it read: value(), str(), payload
ValueOf(kind, r) ==
  IF r.err # "none" THEN <<>>
  ELSE IF kind = "Version" THEN r.version
  ELSE IF kind = "String" THEN StringStr(r)
  ELSE IF kind \in {"UInt", "LLong"} THEN NumberValue(kind, r)
  ELSE r.payload

ViewOf(kind, r) ==
  IF r.err = "none" /\ kind = "String" THEN StringView(r) ELSE <<>>

Outcome(op, kind, exp, r) ==
  /\ last' = [op |-> op, index |-> rcount + 1, from |-> bstream.pos,
              to |-> r.s.pos, exp |-> exp, err |-> r.err, key |-> r.key,
              size |-> r.size, val |-> ValueOf(kind, r), view |-> ViewOf(kind, r)]
  /\ bstream' = r.s
  /\ fails' = IF r.err = "io" THEN fails + 1 ELSE fails
  /\ UNCHANGED <<bfile, wlog, wends, farSeek>>
  /\ UNCHANGED lvars

\* readVersion() / readVersion(expectedKey)
ReadVersion == \E exp \in Expectations :
  /\ CanRead
  /\ NextKind \in {"Version", "none"}
  /\ \E r \in {readVersion(bfile, bstream, exp)} :
         /\ Outcome("readVersion", "Version", exp, r)
         /\ rcount' = IF r.err = "io" THEN rcount ELSE rcount + 1
  /\ UNCHANGED <<bmode, pend>>

\* readBlock<Block>() / readBlock<Block>(expectedKey)
ReadBlock == \E exp \in Expectations :
  /\ CanRead
  /\ NextKind # "Version"
  /\ \E r \in {readBlockKey(bfile, bstream, "FileBlock", exp)} :
         /\ Outcome("readBlock", NextKind, exp, r)
         /\ rcount' = IF r.err = "io" THEN rcount ELSE rcount + 1
  /\ UNCHANGED <<bmode, pend>>

\* skipBlock() / skipBlock(expectedKey), on any block.  The key is checked
\* by readBlockHeader, before the payload is skipped: after a key mismatch
\* the stream is inside the block and the reader gives the file up.  On a
\* version block, which has no size, the skip takes the version and the
\* four bytes after it for the size: the reader gives the file up.
SkipBlock == \E exp \in Expectations :
  /\ CanRead
  /\ \E r \in {skipBlock(bfile, bstream, exp)} :
         /\ Outcome("skipBlock", "BlockInfo", exp, r)
         /\ rcount' = IF r.err = "none" THEN rcount + 1 ELSE rcount
         /\ bmode' = IF r.err = "key" \/ (r.err = "none" /\ NextKind = "Version")
                     THEN "stop" ELSE bmode
  /\ UNCHANGED pend

\* readBlockHeader() / readBlockHeader(expectedKey); after a key mismatch
\* the stream is inside the block and the reader gives the file up
ReadBlockHeader == \E exp \in Expectations :
  /\ CanRead
  /\ NextKind # "Version"
  /\ \E r \in {readBlockHeader(bfile, bstream, exp)} :
         /\ Outcome("readBlockHeader", "BlockInfo", exp, r)
         /\ pend' = IF r.err = "none" THEN <<[key |-> r.key, size |-> r.size]>> ELSE <<>>
         /\ bmode' = IF r.err = "key" THEN "stop" ELSE bmode
  /\ UNCHANGED rcount

\* skipPayload(info) after readBlockHeader
SkipPayload ==
  /\ bmode = "read"
  /\ pend # <<>>
  /\ \E r \in {skipPayload(bfile, bstream, pend[1])} :
         /\ Outcome("skipPayload", "BlockInfo", NoKey, r)
         /\ rcount' = IF r.err = "io" THEN rcount ELSE rcount + 1
  /\ pend' = <<>>
  /\ UNCHANGED bmode

\* readPayload<Block>(info) after readBlockHeader
ReadPayload ==
  /\ bmode = "read"
  /\ pend # <<>>
  /\ \E r \in {readPayload(bfile, bstream, pend[1])} :
         /\ Outcome("readPayload", NextKind, NoKey, r)
         /\ rcount' = IF r.err = "io" THEN rcount ELSE rcount + 1
  /\ pend' = <<>>
  /\ UNCHANGED bmode

\* block objects that are read into: a default-constructed block, and a
\* block that holds a key and three bytes ("Not")
BlockObjects ==
  {[key |-> NullKey, size |-> 0, payload |-> <<>>],
   [key |-> MagicKey(KeyTEST), size |-> 3, payload |-> <<78, 111, 116>>]}

\* block.read(srcFile) on the stream with its exceptions switched off, as the
\* last thing that is done with the stream; view keeps what the block held
BlockRead == \E before \in BlockObjects :
  /\ bmode = "read"
  /\ fails < MaxFails
  /\ \E r \in {FileBlockReadOver(bfile, bstream, before.payload)} :
         /\ last' = [op |-> "read", index |-> rcount + 1, from |-> bstream.pos,
                     to |-> r.s.pos, exp |-> NoKey,
                     err |-> IF r.ok THEN "none" ELSE "io", key |-> r.key,
                     size |-> r.size, val |-> r.payload, view |-> before.payload]
         /\ bstream' = r.s
  /\ bmode' = "stop"
  /\ UNCHANGED <<bfile, wlog, wends, farSeek, rcount, fails, pend>>
  /\ UNCHANGED lvars

BNext ==
  \/ WriteVersion
  \/ WriteString
  \/ WriteUInt
  \/ WriteLLong
  \/ WriteBookmark
  \/ WriteBlob
  \/ Truncate
  \/ OpenRead
  \/ ReadVersion
  \/ ReadBlock
  \/ SkipBlock
  \/ ReadBlockHeader
  \/ SkipPayload
  \/ ReadPayload
  \/ BlockRead

SpecBlocks == Init /\ [][BNext]_vars

\* ------------------------------------------------------------------------
\* Number<T> blocks of several types T, read back as Number<T> of any of
\* the types, from files that also hold blocks of other sizes
\* ------------------------------------------------------------------------
NumberTypes == {"Short", "UInt", "LLong"}

Shorts == {[kind |-> "Short", key |-> KeyNUM1, val |-> -2],
           [kind |-> "Short", key |-> KeyNUM1, val |-> 258]}

\* what a read past the end of a buffer may find in each byte
GarbageBytes == {0, 255}

\* the 64-bit value with the bytes b is one of the integers of the model
FitsInt(b) ==
  \/ b[4] < 128 /\ \A i \in 5..8 : b[i] = 0
  \/ b[4] >= 128 /\ \A i \in 5..8 : b[i] = 255

\* value() of a Number<T> block over the bytes found where its payload
\* starts; a long long beyond the integers of the model is carried by its
\* bytes
ValueRead(T, bytes) ==
  IF T = "LLong" /\ ~FitsInt(bytes) THEN SubSeq(bytes, 1, StoredSize(T))
  ELSE NumberValue(T, [payload |-> bytes])

\* writeBlock<Number<short>>(key, value)
WriteShort == \E b \in Shorts :
  \E block \in {NumberBlock("Short", b.key, b.val)} :
  \E f \in {FileBlockWrite(bfile, block)} :
    Written(b, block, f)

\* readBlock<Number<T>>() / readBlock<Number<T>>(expectedKey) and value()
\* of the block returned.  value() is payloadAs<StoredType_t>(): it reads
\* StoredSize(T) bytes where the payload buffer starts, over of them past
\* the end of the buffer, where any byte may be found.
ReadNumber == \E T \in NumberTypes : \E exp \in Expectations :
  \E fill \in GarbageBytes :
  /\ CanRead
  /\ \E r \in {readBlockKey(bfile, bstream, "FileBlock", exp)} :
     \E over \in {IF r.err = "none" THEN Max(StoredSize(T) - Len(r.payload), 0)
                  ELSE 0} :
         /\ last' = [op |-> "readNumber", index |-> rcount + 1,
                     from |-> bstream.pos, to |-> r.s.pos, exp |-> exp,
                     err |-> r.err, key |-> r.key, size |-> r.size,
                     val |-> IF r.err # "none" THEN <<>>
                             ELSE ValueRead(T, r.payload
                                                 \o [i \in 1..over |-> fill]),
                     view |-> <<>>, type |-> T, over |-> over]
         /\ bstream' = r.s
         /\ fails' = IF r.err = "io" THEN fails + 1 ELSE fails
         /\ rcount' = IF r.err = "io" THEN rcount ELSE rcount + 1
  /\ UNCHANGED <<bfile, wlog, wends, farSeek, bmode, pend>>
  /\ UNCHANGED lvars

\* readBlock<Bookmark>() / readBlock<Bookmark>(expectedKey), on any block
ReadBookmark == \E exp \in Expectations :
  /\ CanRead
  /\ \E r \in {readBlockKey(bfile, bstream, "Bookmark", exp)} :
         /\ last' = [op |-> "readBookmark", index |-> rcount + 1,
                     from |-> bstream.pos, to |-> r.s.pos, exp |-> exp,
                     err |-> r.err, key |-> r.key, size |-> r.size,
                     val |-> r.payload, view |-> <<>>]
         /\ bstream' = r.s
         /\ fails' = IF r.err = "io" THEN fails + 1 ELSE fails
         /\ rcount' = IF r.err = "io" THEN rcount ELSE rcount + 1
  /\ UNCHANGED <<bfile, wlog, wends, farSeek, bmode, pend>>
  /\ UNCHANGED lvars

NextNumbers ==
  \/ WriteShort
  \/ WriteUInt
  \/ WriteLLong
  \/ WriteString
  \/ WriteBookmark
  \/ OpenRead
  \/ ReadNumber
  \/ ReadBookmark

SpecNumbers == Init /\ [][NextNumbers]_vars

\* ========================================================================
\* The photon library: one writer, then one reader and its lookups
\* ========================================================================
\* Inputs: headers of small libraries, right and wrong
Configurations == {<<123, 125>>, <<97, 0>>}        \* "{}", and "a" with a NUL
VersionArgs == {UndefinedFormatVersion, LatestFormatVersion, 2, DefaultFormatVersion}
StepArgs == {<<1, 1, 1>>, <<2, 1, 1>>, <<1, 1, 0>>}
ChannelArgs == {1, 2}
\* "none": consistent; "near": an upper bound 2/2048 cm off (in tolerance);
\* "upper": 3/2048 cm off; "voxels", "entries": a count one too large
Flaws == {"none", "near", "upper", "voxels", "entries"}

\* the axis from -1 cm in nSteps steps of 0.5 cm, its end moved by off
MakeAxis(nSteps, off) ==
  [nSteps |-> nSteps, lower |-> -DblScale,
   upper |-> -DblScale + (DblScale \div 2) * nSteps + off,
   step |-> DblScale \div 2]

MakeHeader(version, configuration, steps, nChannels, flaw) ==
  LET product == steps[1] * steps[2] * steps[3]
      nVoxels == IF flaw = "voxels" THEN product + 1 ELSE product
  IN  [version |-> version, configuration |-> configuration,
       nEntries |-> nVoxels * nChannels + (IF flaw = "entries" THEN 1 ELSE 0),
       nChannels |-> nChannels, nVoxels |-> nVoxels,
       axes |-> <<MakeAxis(steps[1], 0),
                  MakeAxis(steps[2], IF flaw = "near" THEN 2
                                     ELSE IF flaw = "upper" THEN 3 ELSE 0),
                  MakeAxis(steps[3], 0)>>]

Headers ==
  {MakeHeader(v, c, st, ch, fl) :
     v \in VersionArgs, c \in Configurations, st \in StepArgs,
     ch \in ChannelArgs, fl \in Flaws}

\* the visibilities base, base + 1, ... of n entries
Ramp(n, base) == [i \in 1..n |-> FloatBits(base + i - 1)]

\* data vectors: the length the header asks for, one more, one less
DataArgs ==
  LET n == IF fHeader = <<>> THEN 1 ELSE fHeader[1].header.nEntries
  IN  {Ramp(m, base) : m \in {n, n + 1, Max(n - 1, 0)}, base \in {1, 5}}

\* setHeader(header) with a header of H
SetHeaderOf(H) == \E h \in H :
  /\ phase = "setup"
  /\ \E r \in {setHeader(h)} :
         /\ fHeader' = r.fHeader
         /\ setok' = IF r.ok THEN "ok" ELSE "error"
         /\ fop' = [fop EXCEPT !.op = "setHeader", !.ok = r.ok, !.reads = 0,
                                 !.had = fHeader # <<>>, !.was = exists,
                                 !.path = 0]
  /\ given' = h
  /\ UNCHANGED <<libfile, payload, phase, lib, fData, fDataMutex, lk, exists>>
  /\ UNCHANGED <<bvars, reflfile>>

SetHeader == SetHeaderOf(Headers)

\* writeFile(data)
WriteFile == \E data \in DataArgs :
  /\ phase = "setup"
  /\ fop.n < MaxOps
  /\ \E r \in {writeFile(fHeader, data)} :
         /\ libfile' = r.file
         /\ fop' = [fop EXCEPT !.op = "writeFile", !.ok = r.ok, !.reads = 0,
                                 !.had = fHeader # <<>>, !.was = exists,
                                 !.n = fop.n + 1, !.path = 0]
  /\ exists' = TRUE
  /\ payload' = data
  /\ phase' = "written"
  /\ UNCHANGED <<fHeader, given, setok, lib, fData, fDataMutex, lk>>
  /\ UNCHANGED <<bvars, reflfile>>

\* BinaryFilePhotonLibrary(path): when the construction throws there is no
\* library object
OpenLibrary ==
  /\ phase = "written"
  /\ \E r \in {BinaryFilePhotonLibrary(libfile, farSeek)} :
         /\ lib' = r.lib
         /\ phase' = IF r.ok THEN "reading" ELSE "closed"
  /\ fData' = NewStream(farSeek)
  /\ UNCHANGED <<fHeader, given, setok, libfile, payload, fDataMutex, lk, exists, fop>>
  /\ UNCHANGED <<bvars, reflfile>>

\* arguments of the lookups: every valid value and the first invalid one
VoxelArgs == 0..lib.fNVoxels
OpChannelArgs == 0..lib.fNOpChannels

\* GetCount(Voxel, OpChannel) up to the lock of readData; out of range it
\* returns 0 at once
GetCount(t) == \E Voxel \in VoxelArgs, OpChannel \in OpChannelArgs :
  /\ phase = "reading"
  /\ lk[t].pc = "idle"
  /\ LET call == [NoLookup EXCEPT !.fn = "GetCount", !.voxel = Voxel,
                                   !.channel = OpChannel]
     IN  lk' = [lk EXCEPT ![t] =
                  IF isEntryValid(lib, Voxel, OpChannel)
                  THEN [call EXCEPT !.pc = "lock", !.n = 1,
                          !.index = getIndex2(lib.fLookupTable, Voxel, OpChannel)]
                  ELSE [call EXCEPT !.out = "value", !.res = <<0>>]]
  /\ UNCHANGED <<fHeader, given, setok, libfile, payload, phase, lib, fData, fDataMutex,
                 exists, fop>>
  /\ UNCHANGED <<bvars, reflfile>>

\* GetCounts(Voxel) up to the lock of readData; out of range it returns a
\* null pointer at once
GetCounts(t) == \E Voxel \in VoxelArgs :
  /\ phase = "reading"
  /\ lk[t].pc = "idle"
  /\ LET call == [NoLookup EXCEPT !.fn = "GetCounts", !.voxel = Voxel]
     IN  lk' = [lk EXCEPT ![t] =
                  IF isVoxelValidImpl(lib, Voxel)
                  THEN [call EXCEPT !.pc = "lock", !.n = lib.fLookupTable.fNChannels,
                          !.index = getIndex(lib.fLookupTable, Voxel)]
                  ELSE [call EXCEPT !.out = "null"]]
  /\ UNCHANGED <<fHeader, given, setok, libfile, payload, phase, lib, fData, fDataMutex,
                 exists, fop>>
  /\ UNCHANGED <<bvars, reflfile>>

\* readData: std::lock_guard lock(*fDataMutex)
Lock(t) ==
  /\ lk[t].pc = "lock"
  /\ MutexFree(fDataMutex)
  /\ fDataMutex' = t
  /\ lk' = [lk EXCEPT ![t].pc = "seek"]
  /\ UNCHANGED <<fHeader, given, setok, libfile, payload, phase, lib, fData, exists, fop>>
  /\ UNCHANGED <<bvars, reflfile>>

\* a seekg whose exception leaves the mutex locked
SeekKeepsLock(t) ==
  /\ lk[t].pc = "seek"
  /\ LET pos == getPosition(lib.fLookupTable, lk[t].index)
     IN  IF fData.fail
         THEN /\ lk' = [lk EXCEPT ![t].pc = "idle", ![t].out = "error"]
              /\ UNCHANGED <<fData, fDataMutex>>
         ELSE /\ fData' = [fData EXCEPT !.pos = pos]
              /\ lk' = [lk EXCEPT ![t].pc = "read", ![t].at = pos,
                                  ![t].seeks = lk[t].seeks + 1]
              /\ UNCHANGED fDataMutex
  /\ UNCHANGED <<fHeader, given, setok, libfile, payload, phase, lib, exists, fop>>
  /\ UNCHANGED <<bvars, reflfile>>

\* readData: fData.seekg(getPosition(index)); a stream in failure throws,
\* and the lock goes with the exception
Seek(t) ==
  /\ lk[t].pc = "seek"
  /\ LET pos == getPosition(lib.fLookupTable, lk[t].index)
     IN  IF fData.fail
         THEN /\ lk' = [lk EXCEPT ![t].pc = "idle", ![t].out = "error"]
              /\ fDataMutex' = IF fDataMutex = t THEN 0 ELSE fDataMutex
              /\ UNCHANGED fData
         ELSE /\ fData' = [fData EXCEPT !.pos = pos]
              /\ lk' = [lk EXCEPT ![t].pc = "read", ![t].at = pos,
                                  ![t].seeks = lk[t].seeks + 1]
              /\ UNCHANGED fDataMutex
  /\ UNCHANGED <<fHeader, given, setok, libfile, payload, phase, lib, exists, fop>>
  /\ UNCHANGED <<bvars, reflfile>>

\* readData: fData.read(buffer, n * sizeof(Data_t)), then the lock is
\* released and the caller gets the value or the buffer
Read(t) ==
  /\ lk[t].pc = "read"
  /\ \E r \in {readData(libfile, fData, lk[t].n * DataSize)} :
         /\ fData' = r.s
         /\ lk' = [lk EXCEPT ![t].pc = "idle",
                     ![t].reads = lk[t].reads + 1,
                     ![t].nbytes = lk[t].n * DataSize,
                     ![t].out = IF ~r.ok THEN "error"
                                ELSE IF lk[t].fn = "GetCount" THEN "value"
                                ELSE "buffer",
                     ![t].res = FloatsOf(r.data)]
  /\ fDataMutex' = IF fDataMutex = t THEN 0 ELSE fDataMutex
  /\ UNCHANGED <<fHeader, given, setok, libfile, payload, phase, lib, exists, fop>>
  /\ UNCHANGED <<bvars, reflfile>>

MainThread == 1

\* a library is set up, written, opened and looked up by one thread
Next ==
  \/ SetHeader
  \/ WriteFile
  \/ OpenLibrary
  \/ GetCount(MainThread)
  \/ GetCounts(MainThread)
  \/ Lock(MainThread)
  \/ Seek(MainThread)
  \/ Read(MainThread)

Spec == Init /\ [][Next]_vars

\* ------------------------------------------------------------------------
\* The format object used piecewise: writeHeader(), writeData(), writeFooter()
\* and readHeader() on one PhotonLibraryBinaryFileFormat, and library files
\* that were changed on disk
\* ------------------------------------------------------------------------
\* an axis of nSteps cells of no width at the origin
FlatAxis(nSteps) == [nSteps |-> nSteps, lower |-> 0, upper |-> 0, step |-> 0]

\* a header whose axes make 2^16 * 2^16 voxels and that counts none
WideHeader ==
  [version |-> LatestFormatVersion, configuration |-> <<123, 125>>,
   nEntries |-> 0, nChannels |-> 2, nVoxels |-> 0,
   axes |-> <<FlatAxis(65536), FlatAxis(65536), FlatAxis(1)>>]

\* headers for the piecewise use: one well-formed library of two voxels and
\* one channel in every version and with every flaw, one of one voxel and
\* two channels, and the wide one
FormatHeaders ==
  {MakeHeader(v, <<123, 125>>, <<2, 1, 1>>, 1, "none") : v \in VersionArgs}
  \cup {MakeHeader(LatestFormatVersion, <<123, 125>>, <<2, 1, 1>>, 1, fl) : fl \in Flaws}
  \cup {MakeHeader(LatestFormatVersion, <<123, 125>>, <<1, 1, 1>>, 2, "none"),
        WideHeader}

SetFormatHeader == SetHeaderOf(FormatHeaders)

\* data for writeData(data): as many entries as the header says, or one more
FormatDataArgs ==
  {Ramp(m, 1) : m \in {IF fHeader = <<>> THEN 1 ELSE fHeader[1].header.nEntries,
                        IF fHeader = <<>> THEN 2 ELSE fHeader[1].header.nEntries + 1}}

RECURSIVE BlocksFrom(_, _)
\* the blocks of file f from offset at on, as the file format lays them
\* out: a key of KeySize bytes, the size of the data, and the data up to
\* the next word boundary.  Only blocks that are whole are listed.
BlocksFrom(f, at) ==
  IF at + KeySize + BlockSizeBytes > Len(f) THEN <<>>
  ELSE Only({IF at + KeySize + BlockSizeBytes + alignedSize(size) > Len(f)
             THEN <<>>
             ELSE <<[key |-> SubSeq(f, at + 1, at + KeySize), at |-> at,
                     data |-> at + KeySize + BlockSizeBytes, size |-> size,
                     next |-> at + KeySize + BlockSizeBytes + alignedSize(size)]>>
                  \o BlocksFrom(f, at + KeySize + BlockSizeBytes + alignedSize(size)) :
               size \in {DecodeSize(SubSeq(f, at + KeySize + 1,
                                           at + KeySize + BlockSizeBytes))}})

\* the blocks of a library file: the version tag, which has always 4 bytes
\* after the key, and the blocks that follow it
FileBlocks(f) ==
  IF Len(f) < KeySize + 4 THEN <<>>
  ELSE <<[key |-> SubSeq(f, 1, KeySize), at |-> 0, data |-> KeySize,
          size |-> 4, next |-> KeySize + 4]>> \o BlocksFrom(f, KeySize + 4)

\* the bytes of f with those from offset at on replaced by the bytes of b
Patch(f, at, b) ==
  [i \in 1..Len(f) |-> IF i > at /\ i <= at + Len(b) THEN b[i - at] ELSE f[i]]

\* a call of the format object that changes the file: the record of it
FileOp(name, ok) ==
  [fop EXCEPT !.op = name, !.ok = ok, !.reads = 0, !.had = fHeader # <<>>,
              !.was = exists, !.n = fop.n + 1,
              !.path = IF name = "writeHeader" /\ ok THEN 1
                       ELSE IF name = "writeData" /\ fop.path = 1 THEN 2
                       ELSE IF name = "writeFooter" /\ fop.path = 2 THEN 3
                       ELSE 0]

\* a writeHeader() that opens the file with std::ios::app
WriteHeaderAppend ==
  /\ phase \in {"setup", "written"}
  /\ fop.n < MaxOps
  /\ fop.op # "tamper"
  /\ libfile' = IF fHeader = <<>> THEN libfile
                ELSE writeHeader(libfile, fHeader[1].header)
  /\ fop' = FileOp("writeHeader", fHeader # <<>>)
  /\ exists' = TRUE
  /\ phase' = "written"
  /\ UNCHANGED <<fHeader, given, setok, payload, lib, fData, fDataMutex, lk>>
  /\ UNCHANGED <<bvars, reflfile>>

\* writeHeader(): the file is opened with std::ios::trunc, then the header
\* blocks are written; without a header the function throws
WriteHeader ==
  /\ phase \in {"setup", "written"}
  /\ fop.n < MaxOps
  /\ fop.op # "tamper"
  /\ libfile' = IF fHeader = <<>> THEN <<>>
                ELSE writeHeader(<<>>, fHeader[1].header)
  /\ fop' = FileOp("writeHeader", fHeader # <<>>)
  /\ exists' = TRUE
  /\ phase' = "written"
  /\ UNCHANGED <<fHeader, given, setok, payload, lib, fData, fDataMutex, lk>>
  /\ UNCHANGED <<bvars, reflfile>>

\* writeData(data): the file is opened with std::ios::app and the block of
\* the visibility data is written
WriteData == \E data \in FormatDataArgs :
  /\ phase \in {"setup", "written"}
  /\ fop.n < MaxOps
  /\ fop.op # "tamper"
  /\ libfile' = writeVisibilityData(libfile, data)
  /\ fop' = FileOp("writeData", TRUE)
  /\ exists' = TRUE
  /\ payload' = data
  /\ phase' = "written"
  /\ UNCHANGED <<fHeader, given, setok, lib, fData, fDataMutex, lk>>
  /\ UNCHANGED <<bvars, reflfile>>

\* writeFooter(): the file is opened with std::ios::app and the end
\* bookmark is written
WriteFooter ==
  /\ phase \in {"setup", "written"}
  /\ fop.n < MaxOps
  /\ fop.op # "tamper"
  /\ libfile' = writeFooter(libfile)
  /\ fop' = FileOp("writeFooter", TRUE)
  /\ exists' = TRUE
  /\ phase' = "written"
  /\ UNCHANGED <<fHeader, given, setok, payload, lib, fData, fDataMutex, lk>>
  /\ UNCHANGED <<bvars, reflfile>>

\* readHeader() on the format object: a file that is not there makes
\* openLibraryFile() throw before fHeader is touched (the stream throws as
\* soon as BinaryBlockFile sets its exception mask); otherwise fHeader
\* becomes what readHeader leaves
ReadHeader ==
  /\ phase \in {"setup", "written"}
  /\ \E r \in {IF exists THEN readHeader(libfile, farSeek)
               ELSE [ok |-> FALSE, fHeader |-> fHeader, reads |-> 0]} :
         /\ fHeader' = r.fHeader
         /\ fop' = [fop EXCEPT !.op = "readHeader", !.ok = r.ok,
                                 !.reads = r.reads, !.had = fHeader # <<>>,
                                 !.was = exists, !.path = 0]
  /\ UNCHANGED <<given, setok, libfile, payload, phase, lib, fData, fDataMutex, lk,
                 exists>>
  /\ UNCHANGED <<bvars, reflfile>>

\* what may have happened to a written file before it is opened, blocks
\* being its blocks: the key of a block got another first character, a
\* block was lost, a block is there twice, two blocks changed places, the
\* value of a 4-byte block grew by one, the size of the data block grew by
\* k bytes (with or without the k bytes and their padding being there), a
\* byte was added at the end
TamperedFiles(f) ==
  Only({
    {Patch(f, blocks[i].at, <<81>>) : i \in 1..Len(blocks)}
    \cup {SubSeq(f, 1, blocks[i].at) \o SubSeq(f, blocks[i].next + 1, Len(f)) :
            i \in 1..Len(blocks)}
    \cup {SubSeq(f, 1, blocks[i].next)
            \o SubSeq(f, blocks[i].at + 1, Len(f)) : i \in 1..Len(blocks)}
    \cup {SubSeq(f, 1, blocks[i].at)
            \o SubSeq(f, blocks[i].next + 1, blocks[i + 1].next)
            \o SubSeq(f, blocks[i].at + 1, blocks[i].next)
            \o SubSeq(f, blocks[i + 1].next + 1, Len(f)) :
            i \in 1..(Len(blocks) - 1)}
    \cup {Patch(f, blocks[i].data,
                EncodeUInt(DecodeUInt(SubSeq(f, blocks[i].data + 1,
                                             blocks[i].data + 4)) + 1)) :
            i \in {j \in 2..Len(blocks) : blocks[j].size = 4}}
    \cup {Patch(f, blocks[i].at + KeySize,
                ToBytes(blocks[i].size + k, BlockSizeBytes)) :
            i \in {j \in 2..Len(blocks) : blocks[j].key = MagicKey(KeyPHVS)},
            k \in 1..(WordSize - 1)}
    \cup {SubSeq(f, 1, blocks[i].at + KeySize)
            \o ToBytes(blocks[i].size + k, BlockSizeBytes)
            \o SubSeq(f, blocks[i].data + 1, blocks[i].next) \o Zeros(WordSize)
            \o SubSeq(f, blocks[i].next + 1, Len(f)) :
            i \in {j \in 2..Len(blocks) : /\ blocks[j].key = MagicKey(KeyPHVS)
                                          /\ isAligned(blocks[j].size)},
            k \in 1..(WordSize - 1)}
    \cup {f \o <<0>>} :
    blocks \in {FileBlocks(f)}})

\* a file that writeFile has just written, from a header that setHeader
\* took and with as many entries as the header says, is changed on disk
Tamper ==
  /\ phase = "written"
  /\ fop.n < MaxOps
  /\ fop.op = "writeFile"
  /\ setok = "ok"
  /\ Len(payload) = given.nEntries
  /\ \E f \in TamperedFiles(libfile) :
         libfile' = f
  /\ fop' = FileOp("tamper", TRUE)
  /\ UNCHANGED <<fHeader, given, setok, payload, phase, lib, fData, fDataMutex, lk,
                 exists>>
  /\ UNCHANGED <<bvars, reflfile>>

NextFormat ==
  \/ SetFormatHeader
  \/ WriteHeader
  \/ WriteData
  \/ WriteFooter
  \/ WriteFile
  \/ Tamper
  \/ ReadHeader

SpecFormat == Init /\ [][NextFormat]_vars

\* ------------------------------------------------------------------------
\* Concurrent lookups: the threads of Threads share one library object that
\* was opened on a well-formed file
\* ------------------------------------------------------------------------
SharedHeaders ==
  {MakeHeader(LatestFormatVersion, <<123, 125>>, st, ch, "none") :
     st \in {<<2, 1, 1>>, <<1, 1, 1>>}, ch \in ChannelArgs}

InitShared ==
  /\ BInit
  /\ \E h \in SharedHeaders :
       /\ given = h
       /\ fHeader = setHeader(h).fHeader
       /\ payload = Ramp(h.nEntries, 1)
  /\ setok = "ok"
  /\ libfile = writeFile(fHeader, payload).file
  /\ phase = "reading"
  /\ lib = BinaryFilePhotonLibrary(libfile, farSeek).lib
  /\ fData = NewStream(farSeek)
  /\ fDataMutex = 0
  /\ lk = [t \in Threads |-> NoLookup]
  /\ exists = TRUE
  /\ fop = [NoFormatOp EXCEPT !.op = "writeFile", !.had = TRUE]
  /\ reflfile = <<>>

NextShared == \E t \in Threads :
  \/ GetCount(t)
  \/ GetCounts(t)
  \/ Lock(t)
  \/ Seek(t)
  \/ Read(t)

SpecShared == InitShared /\ [][NextShared]_vars

\* ------------------------------------------------------------------------
\* Lookups that fail: the file of an open library loses its end on disk, so
\* that fData.read of an entry behind the new end sets eofbit and failbit,
\* and fData, which throws on every state bit, throws
\* ------------------------------------------------------------------------
\* the file is whole: all the entries and the blocks after them are there
WholeFile ==
  Len(libfile) > getPosition(lib.fLookupTable, lib.fLookupTable.fMetadata.nEntries)

\* the file is cut at the start of one of its entries
CutFile == \E index \in 0..(lib.fLookupTable.fMetadata.nEntries - 1) :
  /\ phase = "reading"
  /\ WholeFile
  /\ libfile' = SubSeq(libfile, 1, getPosition(lib.fLookupTable, index))
  /\ UNCHANGED <<fHeader, given, setok, payload, phase, lib, fData, fDataMutex, lk,
                 exists, fop>>
  /\ UNCHANGED <<bvars, reflfile>>

\* the library of 2 voxels and 1 channel
InitFaulty ==
  /\ InitShared
  /\ given.nVoxels = 2
  /\ given.nChannels = 1
  /\ ~farSeek

NextFaulty ==
  \/ CutFile
  \/ NextShared

SpecFaulty == InitFaulty /\ [][NextFaulty]_vars

\* a thread that is in readData goes on running, and a thread that waits in
\* std::mutex::lock gets the mutex if the mutex is free again and again
FairLookups ==
  \A t \in Threads :
    /\ SF_vars(Lock(t))
    /\ WF_vars(Seek(t))
    /\ WF_vars(Read(t))

SpecFaultyFair == SpecFaulty /\ FairLookups

\* ------------------------------------------------------------------------
\* A library of direct and reflected light: two files, one constructor
\* ------------------------------------------------------------------------
\* the file of the reflected light is written by a writer of its own, from
\* a well-formed header
WriteReflected == \E h \in SharedHeaders :
  /\ phase = "written"
  /\ reflfile = <<>>
  /\ reflfile' = writeFile(setHeader(h).fHeader, Ramp(h.nEntries, 1)).file
  /\ UNCHANGED <<bvars, fHeader, given, setok, libfile, payload, phase, lib, fData,
                 fDataMutex, lk, exists, fop>>

\* BinaryFilePhotonLibrary(direct path, reflected path): when the
\* construction throws there is no library object
OpenLibraries ==
  /\ phase = "written"
  /\ reflfile # <<>>
  /\ \E r \in {BinaryFilePhotonLibraryRefl(libfile, reflfile, farSeek)} :
         /\ lib' = r.lib
         /\ phase' = IF r.ok THEN "reading" ELSE "closed"
  /\ fData' = NewStream(farSeek)
  /\ UNCHANGED <<bvars, fHeader, given, setok, libfile, payload, fDataMutex, lk,
                 exists, fop, reflfile>>

NextReflected ==
  \/ SetHeader
  \/ WriteFile
  \/ WriteReflected
  \/ OpenLibraries

SpecReflected == Init /\ [][NextReflected]_vars

\* ------------------------------------------------------------------------
\* The alignment functions of BlockInfo on sizes at both ends of std::size_t
\* ------------------------------------------------------------------------
MaxSize == 128      \* sizes 0..MaxSize and 2^64 - MaxSize..2^64 - 1 are aligned

\* -d stands for the std::size_t 2^64 - d
SizeArgs == (-MaxSize)..MaxSize

\* isAligned(size), alignedSize(size) and paddingSize(size) are computed
AlignSize == \E size \in SizeArgs :
  /\ last' = [NoOp EXCEPT !.op = "alignedSize", !.size = size,
                          !.val = [isAligned |-> isAligned(size),
                                   alignedSize |-> alignedSize(size),
                                   paddingSize |-> paddingSize(size)]]
  /\ UNCHANGED <<bfile, wlog, wends, bmode, bstream, rcount, fails, pend, farSeek>>
  /\ UNCHANGED lvars

NextSizes == AlignSize

SpecSizes == Init /\ [][NextSizes]_vars

\* ------------------------------------------------------------------------
\* Magic keys made from strings, compared and turned into text
\* ------------------------------------------------------------------------
MaxKeyLen == 5      \* characters of the strings the keys are made from

\* the strings of 'A' and NUL characters of up to MaxKeyLen characters
KeyStrings ==
  UNION {[1..n -> {0, 65}] : n \in 0..MaxKeyLen}

\* MagicKey(str), MagicKey(other), operator== and operator std::string_view;
\* one pair of keys is made in a run
MakeKeys == \E str \in KeyStrings, other \in KeyStrings :
  /\ last.op = "none"
  /\ last' = [NoOp EXCEPT !.op = "MagicKey", !.key = MagicKey(str),
                          !.val = [str |-> str, other |-> MagicKey(other),
                                   equal |-> KeyEq(MagicKey(str), MagicKey(other)),
                                   text |-> MagicKeyView(MagicKey(str))]]
  /\ UNCHANGED <<bfile, wlog, wends, bmode, bstream, rcount, fails, pend, farSeek>>
  /\ UNCHANGED lvars

NextKeys == MakeKeys

SpecKeys == Init /\ [][NextKeys]_vars

\* ------------------------------------------------------------------------
\* Block objects: BlockElementTest makes a block, copies it, sets the copy
\* and writes the two.  A FileBlock owns its payload in a buffer of its own
\* (std::vector fPayload): heap[block.buf] is that buffer.
\* ------------------------------------------------------------------------
MaxSets == 2        \* calls of set() on the copy

NoObject == <<>>

\* the object of the test made from input b, and the heap it needs
NewObject(b) ==
  IF b.kind = "Version"
  THEN [heap |-> <<>>,
        block |-> [kind |-> "Version", key |-> MagicKey(b.key), version |-> b.val]]
  ELSE [heap |-> <<b.val>>,
        block |-> [kind |-> b.kind, key |-> MagicKey(b.key), size |-> Len(b.val),
                   buf |-> 1]]

\* a copy that shares the buffer of its original
FileBlockCopyShared(heap, from) == [heap |-> heap, block |-> from]

\* FileBlock(FileBlock const&) = default: the header and the vector are
\* copied; Version has its members only
FileBlockCopy(heap, from) ==
  IF from.kind = "Version" THEN [heap |-> heap, block |-> from]
  ELSE [heap |-> Append(heap, heap[from.buf]),
        block |-> [from EXCEPT !.buf = Len(heap) + 1]]

\* Version::set(v); String::set(s) and FileBlock::setPayload(n, buffer):
\* setPayloadSize(n), then setPayload(buffer)
BlockSet(heap, block, v) ==
  IF block.kind = "Version"
  THEN [heap |-> heap, block |-> [block EXCEPT !.version = v]]
  ELSE [heap |-> [heap EXCEPT ![block.buf] =
                    setPayload(FileBlockNew(block.key, Len(v)), v).payload],
        block |-> [block EXCEPT !.size = Len(v)]]

\* key(), size() and version() or the payload of a block object
BlockState(heap, block) ==
  IF block.kind = "Version"
  THEN [key |-> block.key, size |-> 0, value |-> block.version]
  ELSE [key |-> block.key, size |-> block.size, value |-> heap[block.buf]]

\* Version::write / FileBlock::write of a block object
BlockWrite(f, heap, block) ==
  IF block.kind = "Version" THEN VersionWrite(f, block.key, block.version)
  ELSE FileBlockWrite(f, [key |-> block.key, size |-> block.size,
                          payload |-> heap[block.buf]])

\* the block read from the source file
MakeObject == \E b \in Versions \cup Strings \cup Blobs :
  /\ last.op = "none"
  /\ \E r \in {NewObject(b)} :
       last' = [op |-> "new", heap |-> r.heap, data |-> r.block,
                dataCopy |-> NoObject, sets |-> 0, writes |-> 0]
  /\ UNCHANGED <<bfile, wlog, wends, bmode, bstream, rcount, fails, pend, farSeek>>
  /\ UNCHANGED lvars

\* FileBlock dataCopy { data }
CopyObject ==
  /\ last.op = "new"
  /\ \E r \in {FileBlockCopy(last.heap, last.data)} :
       last' = [last EXCEPT !.op = "copy", !.heap = r.heap, !.dataCopy = r.block]
  /\ UNCHANGED <<bfile, wlog, wends, bmode, bstream, rcount, fails, pend, farSeek>>
  /\ UNCHANGED lvars

\* the values the copy is set to: the next version, the payload and one
\* more character
SetArgs ==
  IF last.dataCopy.kind = "Version" THEN {last.dataCopy.version + 1}
  ELSE {last.heap[last.dataCopy.buf] \o <<c>> : c \in {0, 49}}

\* dataCopy.set(v), dataCopy.setPayload(n, buffer)
SetCopy ==
  /\ last.op \in {"copy", "set", "write"}
  /\ last.sets < MaxSets
  /\ \E v \in SetArgs : \E r \in {BlockSet(last.heap, last.dataCopy, v)} :
       last' = [last EXCEPT !.op = "set", !.heap = r.heap, !.dataCopy = r.block,
                            !.sets = last.sets + 1]
  /\ UNCHANGED <<bfile, wlog, wends, bmode, bstream, rcount, fails, pend, farSeek>>
  /\ UNCHANGED lvars

\* data.write(destFile), dataCopy.write(destFile)
WriteObject == \E which \in {"data", "dataCopy"} :
  /\ last.op \in {"copy", "set", "write"}
  /\ last.writes < MaxBlocks
  /\ bfile' = BlockWrite(bfile, last.heap, last[which])
  /\ last' = [last EXCEPT !.op = "write", !.writes = last.writes + 1]
  /\ UNCHANGED <<wlog, wends, bmode, bstream, rcount, fails, pend, farSeek>>
  /\ UNCHANGED lvars

NextObjects ==
  \/ MakeObject
  \/ CopyObject
  \/ SetCopy
  \/ WriteObject

SpecObjects == Init /\ [][NextObjects]_vars

\* ========================================================================
\* Properties of the photon library (Spec, SpecShared)
\* ========================================================================
Table == lib.fLookupTable

\* thread t has a completed lookup
Done(t) == lk[t].pc = "idle" /\ lk[t].fn # "none"

\* the n floats of the file at the place of entry index, as a lookup that
\* runs alone gets them
SingleThreaded(index, n) ==
  FloatsOf(readData(libfile,
                    [NewStream(farSeek) EXCEPT !.pos = Table.fDataOffset + index * 4],
                    n * 4).data)

\* setHeader took the header, writeFile got as many entries as the header
\* says and a library was opened on the file
Accepted ==
  /\ setok = "ok"
  /\ phase \in {"reading", "closed"}
  /\ Len(payload) = given.nEntries

\* every entry of the payload is where the lookups find it
PayloadFound ==
  /\ \A i \in 0..(given.nEntries - 1) :
       LET voxel == i \div given.nChannels
           channel == i % given.nChannels
       IN  /\ isEntryValid(lib, voxel, channel)
           /\ SingleThreaded(getIndex2(Table, voxel, channel), 1) = <<payload[i + 1]>>
  /\ \A t \in Threads :
       Done(t) /\ lk[t].fn = "GetCount" /\ lk[t].seeks > 0
         => /\ lk[t].out = "value"
            /\ lk[t].res = <<payload[lk[t].voxel * given.nChannels + lk[t].channel + 1]>>

\* C1 as stated: for every header m that setHeader accepts and every payload
\* of m.nEntries entries, a reader opened on the written file reports
\* metadata equal to m and finds payload[i] at (i div nChannels, i mod nChannels).
C1_RoundTripOriginal ==
  Accepted => /\ lib.open
              /\ Table.fMetadata = given
              /\ PayloadFound

\* the header as setHeader keeps it: the default version becomes the latest
Stored(m) ==
  [m EXCEPT !.version = IF m.version = DefaultFormatVersion
                        THEN LatestFormatVersion ELSE m.version]

\* C1: for every header m that setHeader accepts with version 1 or the
\* default-version value, and every payload of m.nEntries entries, a reader
\* opened on the written file reports metadata equal to m with version 1,
\* and finds payload[i] at (i div nChannels, i mod nChannels).
C1_RoundTrip ==
  Accepted /\ given.version \in {LatestFormatVersion, DefaultFormatVersion}
    => /\ lib.open
       /\ Table.fMetadata = Stored(given)
       /\ PayloadFound

C1_Witness ==
  /\ Accepted
  /\ given.version = DefaultFormatVersion
  /\ given.configuration = <<97, 0>>
  /\ Table.fMetadata.version = LatestFormatVersion
  /\ \E t \in Threads :
       /\ Done(t) /\ lk[t].fn = "GetCount" /\ lk[t].out = "value"
       /\ lk[t].voxel = 1 /\ lk[t].channel = 1 /\ lk[t].seeks = 1
       /\ Len(payload) = 4
       /\ lk[t].res = <<payload[4]>>

C3_SeekAndRead ==
  \A t \in Threads :
    LET nChannels == Table.fMetadata.nChannels
        inRange == /\ lk[t].voxel < Table.fMetadata.nVoxels
                   /\ lk[t].fn = "GetCount" => lk[t].channel < nChannels
    IN  Done(t) /\ inRange
          => /\ lk[t].seeks = 1 /\ lk[t].reads = 1
             /\ lk[t].fn = "GetCount"
                  => /\ lk[t].at = Table.fDataOffset
                                     + (lk[t].voxel * nChannels + lk[t].channel) * 4
                     /\ lk[t].nbytes = 4
             /\ lk[t].fn = "GetCounts"
                  => /\ lk[t].at = Table.fDataOffset + lk[t].voxel * nChannels * 4
                     /\ lk[t].nbytes = nChannels * 4

C3_Witness ==
  \E t \in Threads :
    /\ Done(t) /\ lk[t].fn = "GetCounts" /\ lk[t].voxel = 1
    /\ Table.fMetadata.nChannels = 2
    /\ lk[t].at = Table.fDataOffset + 8
    /\ lk[t].nbytes = 8

\* C4: GetCount with voxel >= nVoxels or channel >= nChannels returns 0.0
\* and does no seek and no read on the data stream.
C4_BoundsSoftness ==
  \A t \in Threads :
    /\ Done(t) /\ lk[t].fn = "GetCount"
    /\ \/ lk[t].voxel >= Table.fMetadata.nVoxels
       \/ lk[t].channel >= Table.fMetadata.nChannels
    => /\ lk[t].out = "value"
       /\ lk[t].res = <<FloatBits(0)>>
       /\ lk[t].seeks = 0 /\ lk[t].reads = 0 /\ lk[t].nbytes = 0

C4_Witness ==
  \E t \in Threads :
    /\ Done(t) /\ lk[t].fn = "GetCount"
    /\ lk[t].voxel = 0 /\ Table.fMetadata.nVoxels = 2
    /\ lk[t].channel = Table.fMetadata.nChannels
    /\ lk[t].res = <<0>>
    /\ lk[t].seeks = 0

\* C5: GetCounts returns a null result, without a seek or a read, exactly
\* when voxel >= nVoxels; for every valid voxel it returns a buffer of
\* nChannels values.
C5_NullOutOfRange ==
  \A t \in Threads :
    Done(t) /\ lk[t].fn = "GetCounts"
      => /\ lk[t].out = "null" <=> lk[t].voxel >= Table.fMetadata.nVoxels
         /\ lk[t].out = "null"
              => lk[t].seeks = 0 /\ lk[t].reads = 0 /\ lk[t].res = <<>>
         /\ lk[t].out # "null"
              => /\ lk[t].out = "buffer"
                 /\ Len(lk[t].res) = Table.fMetadata.nChannels

C5_Witness ==
  \E t \in Threads :
    /\ Done(t) /\ lk[t].fn = "GetCounts"
    /\ lk[t].voxel = Table.fMetadata.nVoxels
    /\ lk[t].voxel = 2
    /\ lk[t].out = "null"

\* ========================================================================
\* Properties of the block file (SpecBlocks)
\* ========================================================================
ReadOps == {"readVersion", "readBlock", "skipBlock", "readBlockHeader",
            "skipPayload", "readPayload"}

\* offset at which the i-th written block starts
BlockStart(i) == IF i = 1 THEN 0 ELSE wends[i - 1]

\* the file holds everything that was written
Intact == wlog # <<>> /\ Len(bfile) = wends[Len(wlog)]

\* the last operation was a skipBlock on a version block
SkippedVersion ==
  /\ last.op = "skipBlock"
  /\ last.index <= Len(wlog)
  /\ wlog[last.index].kind = "Version"

\* C6: generic block round trip.  Every block that readVersion (on a version
\* block) or readBlock, skipBlock, readBlockHeader and the payload
\* operations (on the other blocks) return is the block written at the
\* same place in the sequence: it starts where that block was written and
\* has its key, its payload size and (for the operations that return the
\* content) its value.
C6_RoundTrip ==
  (last.op \in ReadOps /\ last.err = "none" /\ ~SkippedVersion) =>
    /\ last.index <= Len(wlog)
    /\ LET w == wlog[last.index]
       IN  /\ KeyEq(last.key, w.bkey)
           /\ last.key = MagicKey(w.key)
           /\ last.op \in {"readVersion", "readBlock", "skipBlock", "readBlockHeader"}
                => last.from = BlockStart(last.index)
           /\ last.op # "readVersion" => last.size = w.size
           /\ last.op \in {"readVersion", "readBlock", "readPayload"}
                => last.val = w.val

\* C6 witness: a complete file of MaxBlocks blocks was read to its last
\* block, a string that ends with a NUL character
C6_Witness ==
  /\ Intact
  /\ Len(wlog) = MaxBlocks
  /\ rcount = MaxBlocks
  /\ fails = 0
  /\ last.op = "readBlock"
  /\ last.err = "none"
  /\ wlog[MaxBlocks].kind = "String"
  /\ last.val = <<97, 0>>

\* C7: once every block has been read or skipped, a further read operation
\* ends with an error.
C7_PastTheEnd ==
  (last.op \in ReadOps /\ last.index > Len(wlog)) => last.err = "io"

\* C7 witness: skipBlock() after the last block of a complete file
C7_Witness ==
  /\ Intact
  /\ rcount = Len(wlog)
  /\ last.op = "skipBlock"
  /\ last.index = Len(wlog) + 1
  /\ last.exp = NoKey
  /\ last.err = "io"

\* C8: padding invariance.  A successful readBlock of a block of stored size
\* s moves the cursor by 12 + alignedSize(s); a successful readVersion moves
\* it by 8.
C8_PaddingInvariance ==
  /\ (last.op = "readBlock" /\ last.err = "none")
       => last.to - last.from = KeySize + BlockSizeBytes + alignedSize(last.size)
  /\ (last.op = "readVersion" /\ last.err = "none")
       => last.to - last.from = KeySize + WordSize

\* C8 witness: a block whose size is not a multiple of the word was read
C8_Witness ==
  /\ last.op = "readBlock"
  /\ last.err = "none"
  /\ last.size = 5
  /\ last.to = last.from + 20

\* the operation that reads a block of a kind to its end
ReadOpOf(kind) == IF kind = "Version" THEN "Version" ELSE "FileBlock"

\* the reader is at the start of a block that is not the last one
AtBlockStart ==
  /\ bmode = "read" /\ pend = <<>> /\ ~bstream.fail
  /\ rcount + 1 < Len(wlog)
  /\ bstream.pos = BlockStart(rcount + 1)

\* C9 as stated: from the start of any block that is not the last one,
\* skipBlock and readBlock leave the cursor at the same position, the start
\* of the next block.
C9_SkipCorrectnessOriginal ==
  /\ (/\ last.op \in {"skipBlock", "readBlock", "readVersion"}
      /\ last.err = "none"
      /\ last.index < Len(wlog))
       => last.to = BlockStart(last.index + 1)
  /\ AtBlockStart
       => skipBlock(bfile, bstream, NoKey).s
            = readBlock(bfile, bstream, ReadOpOf(NextKind)).s

\* C9: skip correctness.  From the start of a block that is not the last
\* one and is not a version block, skipBlock and readBlock (and skipPayload
\* and readPayload after readBlockHeader) all leave the cursor at the start
\* of the next block.
C9_SkipCorrectness ==
  /\ (/\ last.op \in {"skipBlock", "readBlock", "skipPayload", "readPayload"}
      /\ last.err = "none"
      /\ last.index < Len(wlog)
      /\ wlog[last.index].kind # "Version")
       => last.to = BlockStart(last.index + 1)
  /\ AtBlockStart /\ NextKind # "Version"
       => /\ skipBlock(bfile, bstream, NoKey).s
               = readBlock(bfile, bstream, "FileBlock").s
          /\ skipBlock(bfile, bstream, NoKey).s.pos = BlockStart(rcount + 2)

\* C9 witness: a block with padding, followed by another block, was skipped
C9_Witness ==
  /\ last.op = "skipBlock"
  /\ last.err = "none"
  /\ last.index < Len(wlog)
  /\ paddingSize(last.size) > 0
  /\ last.to = wends[last.index]

\* the key that the stream held where the last operation started
StreamKey == SubSeq(bfile, last.from + 1, last.from + KeySize)

KeyedOps == {"readVersion", "readBlock", "skipBlock", "readBlockHeader"}

\* the key check throws exactly when the key in the stream differs from the
\* expected one
KeyCheckExact ==
  (last.op \in KeyedOps /\ last.err # "io") =>
    (last.err = "key" <=>
       (last.exp # NoKey /\ \E k \in last.exp : StreamKey # MagicKey(k)))

\* C10 as stated: the key check is exact, and on a mismatch the offending
\* block (for readBlockHeader: its header) has been consumed.
C10_KeyCheckOriginal ==
  /\ KeyCheckExact
  /\ (last.op \in KeyedOps /\ last.err = "key") =>
       last.to = last.from +
         (IF last.op = "readVersion" THEN KeySize + WordSize
          ELSE IF last.op = "readBlockHeader" THEN KeySize + BlockSizeBytes
          ELSE KeySize + BlockSizeBytes + alignedSize(last.size))

\* C10 amended: the key check is exact; on a mismatch readBlock has consumed
\* the whole block and readVersion the 8 bytes of the version, while both
\* readBlockHeader and skipBlock have consumed the 12 bytes of the header
\* only; the cursor is never back where the call started.
C10_KeyCheck ==
  /\ KeyCheckExact
  /\ (last.op \in KeyedOps /\ last.err = "key") =>
       /\ last.to > last.from
       /\ last.to = last.from +
            (IF last.op = "readVersion" THEN KeySize + WordSize
             ELSE IF last.op \in {"readBlockHeader", "skipBlock"}
               THEN KeySize + BlockSizeBytes
             ELSE KeySize + BlockSizeBytes + alignedSize(last.size))

\* C10 witness: skipBlock(expectedKey) met another key on a block with payload
C10_Witness ==
  /\ last.op = "skipBlock"
  /\ last.err = "key"
  /\ last.size > 0
  /\ last.to = last.from + 12

\* ========================================================================
\* Properties of the format object (SpecFormat)
\* ========================================================================
\* the last operation was a readHeader() that could open the file
HeaderRead == fop.op = "readHeader" /\ fop.was

\* the keys of a library file of version 1, in the order of the file format
SchemaKeys ==
  <<<<80, 76, 73, 66>>, <<67, 78, 70, 71>>, <<78, 84, 82, 89>>,     \* PLIB CNFG NTRY
    <<78, 67, 72, 78>>, <<78, 86, 88, 76>>,                         \* NCHN NVXL
    <<65, 88, 73, 88>>, <<78, 66, 79, 88>>, <<77, 73, 78, 88>>,     \* AXIX NBOX MINX
    <<77, 65, 88, 88>>, <<83, 84, 69, 88>>, <<69, 78, 68, 88>>,     \* MAXX STEX ENDX
    <<65, 88, 73, 89>>, <<78, 66, 79, 89>>, <<77, 73, 78, 89>>,     \* AXIY NBOY MINY
    <<77, 65, 88, 89>>, <<83, 84, 69, 89>>, <<69, 78, 68, 89>>,     \* MAXY STEY ENDY
    <<65, 88, 73, 90>>, <<78, 66, 79, 90>>, <<77, 73, 78, 90>>,     \* AXIZ NBOZ MINZ
    <<77, 65, 88, 90>>, <<83, 84, 69, 90>>, <<69, 78, 68, 90>>,     \* MAXZ STEZ ENDZ
    <<80, 72, 86, 83>>, <<68, 79, 78, 69>>>>                        \* PHVS DONE

\* the blocks of file f carry the keys of the schema, in its order, from
\* the start of the file to the end bookmark
InSchemaOrder(f) ==
  \E blocks \in {FileBlocks(f)} :
    /\ Len(blocks) >= Len(SchemaKeys)
    /\ \A i \in 1..Len(SchemaKeys) : blocks[i].key = SchemaKeys[i]

\* the file starts with a whole version block of key PLIB
HasVersion(f) == Len(f) >= KeySize + 4 /\ SubSeq(f, 1, KeySize) = SchemaKeys[1]

\* the version that the file carries
FileVersion(f) == FromBytes(SubSeq(f, KeySize + 1, KeySize + 4))

\* C11: readHeader succeeds only on files whose blocks carry, from the start
\* of the file, the keys PLIB, CNFG, NTRY, NCHN, NVXL, then for each axis X,
\* Y, Z: AXI?, NBO?, MIN?, MAX?, STE?, END?, then PHVS, then DONE; on a file
\* with a block missing, reordered, renamed or inserted before DONE it
\* raises an error.
C11_SchemaOrder ==
  HeaderRead /\ ~InSchemaOrder(libfile) => ~fop.ok /\ fHeader = <<>>

\* C11 witness: readHeader has refused, after the version block, a written
\* file whose blocks are not those of the schema in their order
C11_Witness ==
  /\ HeaderRead /\ ~fop.ok
  /\ fop.reads > 1
  /\ HasVersion(libfile)
  /\ Len(FileBlocks(libfile)) >= Len(SchemaKeys) - 1
  /\ ~InSchemaOrder(libfile)

\* C12: on every file whose PLIB version is not 1 (version 0 and every
\* version greater than 1) readHeader raises an error, and the version block
\* is the only block it has read.
C12_UnsupportedVersion ==
  HeaderRead /\ HasVersion(libfile) /\ FileVersion(libfile) # 1
    => /\ ~fop.ok
       /\ fop.reads = 1
       /\ fHeader = <<>>

\* C12 witness: readHeader refused a whole library file of version 2
C12_Witness ==
  /\ HeaderRead /\ ~fop.ok /\ fop.reads = 1
  /\ HasVersion(libfile)
  /\ FileVersion(libfile) = 2
  /\ InSchemaOrder(libfile)

\* n is the product of a, b and c, without forming products beyond n
IsProduct(n, a, b, c) ==
  IF a = 0 \/ b = 0 \/ c = 0 THEN n = 0
  ELSE /\ n > 0
       /\ n % a = 0
       /\ (n \div a) % b = 0
       /\ (n \div a) \div b = c

\* the cross-field invariants of a header, in exact arithmetic
EntriesConsistent(h) == h.nEntries = h.nVoxels * h.nChannels

VoxelsConsistent(h) ==
  IsProduct(h.nVoxels, h.axes[1].nSteps, h.axes[2].nSteps, h.axes[3].nSteps)

AxesConsistent(h) ==
  \A i \in 1..3 :
    Abs(h.axes[i].upper - (h.axes[i].lower + h.axes[i].nSteps * h.axes[i].step)) * 1000
      <= DblScale

Consistent(h) == EntriesConsistent(h) /\ VoxelsConsistent(h) /\ AxesConsistent(h)

\* C13: readHeader raises an error for every file in which nEntries is not
\* nVoxels * nChannels, or nVoxels is not the product of the three nSteps,
\* or an axis has its upper bound off lower + nSteps * step beyond the
\* tolerance: a header that readHeader returns satisfies the three.
C13_ReaderChecks ==
  HeaderRead /\ fop.ok => Consistent(fHeader[1].header)

\* the place of the visibility data block among the blocks of the schema
DataBlockIndex == Len(SchemaKeys) - 1

\* C14: readHeader raises an error for every file in which the stored size
\* of the PHVS block differs from nEntries * 4 bytes (nEntries being the
\* value of NTRY): when readHeader returns, the size stored in the PHVS
\* block of the file is nEntries * 4.
C14_DataSize ==
  HeaderRead /\ fop.ok
    => \E blocks \in {FileBlocks(libfile)} :
         /\ Len(blocks) >= DataBlockIndex
         /\ blocks[DataBlockIndex].key = SchemaKeys[DataBlockIndex]
         /\ blocks[DataBlockIndex].size = fHeader[1].header.nEntries * 4

\* C15: after the DONE bookmark readHeader verifies that the file holds
\* nothing more: when readHeader returns, the DONE block of the schema is
\* the end of the file, with no further block and no further byte.
C15_NothingAfterDone ==
  HeaderRead /\ fop.ok
    => \E blocks \in {FileBlocks(libfile)} :
         /\ Len(blocks) >= Len(SchemaKeys)
         /\ blocks[Len(SchemaKeys)].key = SchemaKeys[Len(SchemaKeys)]
         /\ blocks[Len(SchemaKeys)].next = Len(libfile)

\* C16 as stated: after any call of readHeader, hasHeader() is true if and
\* only if that call parsed the whole schema through DONE without error.
C16_HeaderCacheOriginal ==
  fop.op = "readHeader" => ((fHeader # <<>>) <=> fop.ok)

\* C16: header cache validity: after any call of readHeader that could open
\* the file, hasHeader() is true if and only if that call parsed the whole
\* schema through DONE without error (all the block reads of the schema
\* were made); when parsing failed, the cached header is none, also when an
\* earlier readHeader or setHeader had cached one.  When the file could not
\* be opened the call fails without a block read and the cache is as it
\* was before the call.
C16_HeaderCache ==
  fop.op = "readHeader"
    => /\ fop.was => /\ (fHeader # <<>>) <=> fop.ok
                     /\ fop.ok => fop.reads = Len(SchemaKeys)
                     /\ ~fop.ok => fHeader = <<>> /\ fop.reads >= 1
       /\ ~fop.was => /\ ~fop.ok
                      /\ fop.reads = 0
                      /\ (fHeader # <<>>) <=> fop.had

\* parsing failed after the version block on an object that had a header
\* cached, and no header is left
C16_Witness ==
  /\ HeaderRead
  /\ fop.had
  /\ ~fop.ok
  /\ fop.reads > 1
  /\ fHeader = <<>>

\* C17: when readHeader returns, dataOffset is the position of the first
\* byte of the PHVS payload, that is KeySize + BlockSizeBytes = 12 bytes
\* after the start of the PHVS block, and dataOffset + nEntries * 4 is the
\* position where the DONE block starts.
C17_DataOffset ==
  HeaderRead /\ fop.ok
    => \E blocks \in {FileBlocks(libfile)} :
         /\ Len(blocks) >= Len(SchemaKeys)
         /\ blocks[DataBlockIndex].key = SchemaKeys[DataBlockIndex]
         /\ blocks[Len(SchemaKeys)].key = SchemaKeys[Len(SchemaKeys)]
         /\ fHeader[1].dataOffset = blocks[DataBlockIndex].at + 12
         /\ fHeader[1].dataOffset = blocks[DataBlockIndex].data
         /\ fHeader[1].dataOffset + fHeader[1].header.nEntries * 4
              = blocks[Len(SchemaKeys)].at

\* C18: writer invariant enforcement: setHeader raises an error for every
\* header with nEntries # nVoxels * nChannels, or with nVoxels different
\* from the product of the nSteps of the three axes, or with an axis whose
\* upper differs from lower + nSteps * step by more than the tolerance of
\* 1e-3, and for no header that satisfies all three.
C18_WriterInvariants ==
  fop.op = "setHeader" => (fop.ok <=> Consistent(given))

\* the operations that write one part of the library file
PartWriters == {"writeHeader", "writeData", "writeFooter"}

\* C19: writer misconfiguration: on an object with no header set
\* (hasHeader() false), each call of writeHeader, writeData and writeFooter
\* raises an error and leaves the file as it was.
C19_NoHeaderNoWrite ==
  [][fHeader = <<>> /\ fop'.n = fop.n + 1 /\ fop'.op \in PartWriters
       => ~fop'.ok /\ libfile' = libfile]_vars

\* the bytes of f from offset from up to offset to
Bytes(f, from, to) == SubSeq(f, from + 1, to)

\* C20: writeFile emits the blocks in the prescribed order, each after the
\* other: the file it leaves is made of exactly the blocks PLIB, CNFG, NTRY,
\* NCHN, NVXL, the three axis sequences x, y and z, PHVS and DONE, DONE
\* ending the file; the blocks before PHVS are the bytes writeHeader
\* wrote, the PHVS block has the size and the bytes of the caller's buffer
\* as its payload, and DONE follows the (word aligned) payload.
C20_WriteOrder ==
  fop.op = "writeFile" /\ fop.ok
    => \E blocks \in {FileBlocks(libfile)} :
         /\ Len(blocks) = Len(SchemaKeys)
         /\ \A i \in 1..Len(SchemaKeys) : blocks[i].key = SchemaKeys[i]
         /\ blocks[Len(SchemaKeys)].size = 0
         /\ blocks[Len(SchemaKeys)].next = Len(libfile)
         /\ Bytes(libfile, 0, blocks[DataBlockIndex].at)
              = writeHeader(<<>>, fHeader[1].header)
         /\ blocks[DataBlockIndex].size = Len(payload) * 4
         /\ Bytes(libfile, blocks[DataBlockIndex].data,
                  blocks[DataBlockIndex].data + Len(payload) * 4)
              = FloatBytes(payload)
         /\ blocks[Len(SchemaKeys)].at
              = blocks[DataBlockIndex].data + Len(payload) * 4

\* writeFile has written a library of two entries
C20_Witness ==
  /\ fop.op = "writeFile"
  /\ fop.ok
  /\ Len(payload) = 2
  /\ Len(FileBlocks(libfile)) = Len(SchemaKeys)
  /\ Len(libfile) > 0

\* C21: read-failure policy: whenever read() of a block object fails, at
\* whatever point of the block the stream ends (in the key, in the size or
\* in the payload), the object ends in the null state: null key, size 0 and
\* empty payload, whatever it held before the call.
C21_NullAfterFailure ==
  last.op = "read" /\ last.err = "io"
    => last.key = NullKey /\ last.size = 0 /\ last.val = <<>>

\* the last operation was a readBlock<String> that returned the block
StringRead ==
  /\ last.op = "readBlock"
  /\ last.err = "none"
  /\ last.index <= Len(wlog)
  /\ wlog[last.index].kind = "String"

\* C22: the stored length of a String block is authoritative: a String
\* block written for the byte string s (strings that end with NUL bytes
\* included) has size Len(s) and is followed in the file by
\* paddingSize(Len(s)) NUL bytes, and every text conversion of the block
\* read back, str() and string_view() / operator(), is exactly the Len(s)
\* bytes of s.
C22_StoredLength ==
  StringRead =>
    \E w \in {wlog[last.index]} :
      /\ last.size = Len(w.val)
      /\ wends[last.index] - BlockStart(last.index)
           = KeySize + BlockSizeBytes + Len(w.val) + paddingSize(Len(w.val))
      /\ \A i \in 1..paddingSize(Len(w.val)) :
           wends[last.index] - i < Len(bfile) => bfile[wends[last.index] - i + 1] = 0
      /\ last.val = w.val
      /\ last.view = w.val

\* C23: reading a Number<T> block verifies the stored payload size:
\* readBlock<Number<T>> returns a block only when the size read from the
\* stream is the size of the stored representation of T, and value() is
\* never evaluated on a payload of another length.
C23_NumberSize ==
  last.op = "readNumber" /\ last.err = "none"
    => last.size = StoredSize(last.type)

\* readBlock<Number<T>> has returned a block that was written as Number<T>
NumberRead ==
  /\ last.op = "readNumber"
  /\ last.err = "none"
  /\ last.index <= Len(wlog)
  /\ wlog[last.index].kind = last.type

\* C24: Number<T> storage width: the block of an integer type T narrower
\* than a word has the size field and a payload buffer of one word, which
\* holds the value widened with the signedness of T; the block of a type of
\* the size of a word and more has sizeof(T) bytes, stored as they are; and
\* value() reads only bytes of the payload buffer and returns the value.
C24_StorageWidth ==
  NumberRead =>
    \E w \in {wlog[last.index]} :
      /\ w.size = StoredSize(w.kind)
      /\ last.size = StoredSize(w.kind)
      /\ SubSeq(bfile, last.from + KeySize + BlockSizeBytes + 1,
                last.from + KeySize + BlockSizeBytes + StoredSize(w.kind))
           = StoredBytes(w.kind, w.val)
      /\ last.over = 0
      /\ last.val = w.val

\* the lookup of thread t went to the data stream for entries whose bytes
\* are in the file
EntriesPresent(t) ==
  /\ lk[t].n > 0
  /\ getPosition(Table, lk[t].index) + lk[t].n * DataSize <= Len(libfile)

\* C25: after a lookup has failed on the data stream, the reader is still
\* usable: a lookup of entries whose bytes are in the file succeeds and
\* returns the stored values.
C25_UsableAfterFailure ==
  \A t \in Threads :
    Done(t) /\ fData.fail /\ EntriesPresent(t)
      => /\ lk[t].out \in {"value", "buffer"}
         /\ lk[t].res = SingleThreaded(lk[t].index, lk[t].n)

\* thread t is between the seek and the read of readData
InPair(t) == lk[t].pc \in {"seek", "read"}

\* the mutex is owned by the thread that is in the pair, and by nobody when
\* no thread is
LockScope ==
  /\ fDataMutex \in Threads => InPair(fDataMutex)
  /\ \A t \in Threads : InPair(t) => fDataMutex = t

C27_ConsistentSizes ==
  lib.open /\ lib.fHasReflected
    => /\ lib.fReflLookupTable.fNVoxels = lib.fLookupTable.fNVoxels
       /\ lib.fReflLookupTable.fNChannels = lib.fLookupTable.fNChannels

\* the payload bytes of the block that the write w handed to the stream
PayloadOf(w) ==
  IF w.kind \in {"String", "Blob"} THEN w.val
  ELSE IF w.kind \in {"UInt", "LLong"} THEN StoredBytes(w.kind, w.val)
  ELSE <<>>

\* C28: the write of a block of payload size s appends 4 key bytes, 8 bytes
\* that hold s, the s payload bytes and paddingSize(s) NUL bytes, which is
\* 12 + alignedSize(s) bytes; the write of a version block appends 8 bytes;
\* so after any sequence of writes to an empty file the length of the file
\* is a multiple of 4 and every block starts at a multiple of 4.
C28_BlockLayout ==
  bmode = "write" =>
    /\ Len(bfile) % 4 = 0
    /\ Len(bfile) = IF wlog = <<>> THEN 0 ELSE wends[Len(wlog)]
    /\ \A i \in 1..Len(wlog) :
         LET w == wlog[i]
             at == BlockStart(i)
         IN  /\ at % 4 = 0
             /\ Bytes(bfile, at, at + 4) = w.bkey
             /\ IF w.kind = "Version"
                THEN /\ wends[i] = at + 8
                     /\ Bytes(bfile, at + 4, at + 8) = EncodeUInt(w.val)
                ELSE /\ wends[i] = at + 12 + alignedSize(w.size)
                     /\ Bytes(bfile, at + 4, at + 12) = ToBytes(w.size, 8)
                     /\ Bytes(bfile, at + 12, at + 12 + w.size) = PayloadOf(w)
                     /\ wends[i] - (at + 12 + w.size) = paddingSize(w.size)
                     /\ \A k \in (at + 12 + w.size + 1)..wends[i] : bfile[k] = 0

\* a blob of 7 bytes, which takes 1 byte of padding, then a version block
\* and a string of 5 bytes, which takes 3, have been written
C28_Witness ==
  /\ bmode = "write"
  /\ Len(wlog) = 3
  /\ wlog[1].kind = "Blob" /\ wlog[1].size = 7
  /\ wlog[2].kind = "Version"
  /\ wlog[3].kind = "String" /\ wlog[3].size = 5
  /\ Len(bfile) = 20 + 8 + 20

\* the alignment functions were called with a size
Aligned == last.op = "alignedSize"

\* a is the smallest multiple of the word that is not below s, as numbers
\* of std::size_t
SmallestMultiple(a, s) ==
  /\ a % 4 = 0
  /\ ~ULess(a, s)
  /\ \A m \in SizeArgs : m % 4 = 0 /\ ~ULess(m, s) => ~ULess(m, a)

\* what the claim says of size s and of the values computed for it
AlignmentOf(s, v) ==
  /\ SmallestMultiple(v.alignedSize, s)
  /\ v.paddingSize \in 0..3
  /\ (v.paddingSize = 0) <=> v.isAligned

C30_MagicKeys ==
  last.op = "MagicKey" =>
    LET str == last.val.str
        text == last.val.text
    IN  /\ Len(last.key) = 4
        /\ Len(str) < 4 => last.key = str \o Zeros(4 - Len(str))
        /\ Len(str) >= 4 => last.key = SubSeq(str, 1, 4)
        /\ last.val.equal <=> last.key = last.val.other
        /\ Len(text) <= 4
        /\ text = SubSeq(last.key, 1, Len(text))
        /\ text # <<>> => text[Len(text)] # 0
        /\ \A i \in (Len(text) + 1)..4 : last.key[i] = 0
        /\ Len(str) <= 4 /\ (str = <<>> \/ str[Len(str)] # 0) => text = str

\* the key of "A\0A", a string with a NUL inside, was compared with a key
\* that differs from it in its third byte only
C30_Witness ==
  /\ last.op = "MagicKey"
  /\ last.val.str = <<65, 0, 65>>
  /\ last.key = <<65, 0, 65, 0>>
  /\ last.val.other = <<65, 0, 0, 0>>
  /\ ~last.val.equal
  /\ last.val.text = <<65, 0, 65>>

\* readBlock<Bookmark> was called at the start of a block that was written
\* with a payload, with no key or with the key of the block
BookmarkOnPayload ==
  /\ last.op = "readBookmark"
  /\ last.index <= Len(wlog)
  /\ last.from = BlockStart(last.index)
  /\ wlog[last.index].size > 0
  /\ last.exp \in {NoKey, {wlog[last.index].key}}

\* C31: readBlock<Bookmark> on a block whose stored size s is not 0
\* succeeds, takes the block as a normal block, with its size and its
\* payload, and moves the cursor by 12 + alignedSize(s), to the start of the
\* block that follows.
C31_BookmarkWithPayload ==
  BookmarkOnPayload =>
    /\ last.err = "none"
    /\ last.key = wlog[last.index].bkey
    /\ last.size = wlog[last.index].size
    /\ last.val = Bytes(bfile, last.from + 12, last.from + 12 + last.size)
    /\ last.to = last.from + 12 + alignedSize(last.size)
    /\ last.to = wends[last.index]

\* a string of 5 bytes, which takes 3 bytes of padding, was read as a
\* bookmark, and a block follows it
C31_Witness ==
  /\ BookmarkOnPayload
  /\ wlog[last.index].kind = "String"
  /\ last.size = 5
  /\ last.to - last.from = 20
  /\ last.index < Len(wlog)

\* setHeader(given) has returned
HeaderSet == fop.op = "setHeader" /\ fop.ok

\* C32: after a successful setHeader(h) with the default version, the
\* version of header() is the latest version, 1; with any other version
\* the stored version is the version of h; all the other fields of the
\* stored header are the fields of h.
C32_DefaultVersion ==
  HeaderSet =>
    /\ fHeader # <<>>
    /\ given.version = DefaultFormatVersion => fHeader[1].header.version = 1
    /\ given.version # DefaultFormatVersion
         => fHeader[1].header.version = given.version
    /\ [fHeader[1].header EXCEPT !.version = 0] = [given EXCEPT !.version = 0]

\* setHeader took a header of 2 voxels and 2 channels with the default
\* version
C32_Witness ==
  /\ HeaderSet
  /\ given.version = DefaultFormatVersion
  /\ given.nVoxels = 2
  /\ given.nChannels = 2
  /\ fHeader[1].header.version = LatestFormatVersion

\* C33: write() does not change the block: its key, size and payload or
\* value are what they were before the call; and a copy is independent of
\* its original: set() on the copy changes the value of the copy and leaves
\* the key of the copy and the key and the value of the original as they
\* were.
C33_WriteAndCopy ==
  [][/\ last'.op = "write"
          => /\ BlockState(last'.heap, last'.data) = BlockState(last.heap, last.data)
             /\ BlockState(last'.heap, last'.dataCopy)
                  = BlockState(last.heap, last.dataCopy)
     /\ last'.op = "set"
          => /\ BlockState(last'.heap, last'.dataCopy).value
                  # BlockState(last.heap, last.dataCopy).value
             /\ last'.dataCopy.key = last.dataCopy.key
             /\ BlockState(last'.heap, last'.data) = BlockState(last.heap, last.data)
    ]_vars

\* the original and its copy, which was set to another payload, were
\* written
C33_Witness ==
  /\ last.op = "write"
  /\ last.sets > 0
  /\ last.writes > 1
  /\ last.data.kind = "Blob"
  /\ BlockState(last.heap, last.dataCopy).value
       # BlockState(last.heap, last.data).value
  /\ last.dataCopy.key = last.data.key
  /\ Len(bfile) = 20 + 20

\* the bytes of the n entries from entry index on are in the file
InFile(index, n) ==
  getPosition(Table, index) + n * DataSize <= Len(libfile)

\* C34: no caching: what a lookup returns depends on the content of the
\* file and on the entry asked for only, never on the lookups made before
\* it: a lookup that leaves readData returns the entries the file holds at
\* its index, and fails exactly when the file does not hold them.
C34_NoCaching ==
  [][\A t \in Threads :
       lk[t].pc \in {"seek", "read"} /\ lk'[t].pc = "idle"
         => /\ lk'[t].out = "error" <=> ~InFile(lk[t].index, lk[t].n)
            /\ InFile(lk[t].index, lk[t].n)
                 => lk'[t].res = SingleThreaded(lk[t].index, lk[t].n)
    ]_vars

\* setHeader and then writeFile returned, and the file was read back
WrittenAndRead ==
  /\ setok = "ok"
  /\ fop.op = "writeFile" /\ fop.ok
  /\ phase \in {"reading", "closed"}

\* C35 as claimed: every file made by a successful setHeader(h) and a
\* successful writeFile(data) is read back without error, whatever the
\* version of h and the length of data.
C35_WrittenIsReadableOriginal ==
  WrittenAndRead => lib.open

\* C35: every file made by a successful setHeader(h), with h of version 1
\* or of the default version, and a successful writeFile(data), with data
\* of h.nEntries elements, is read back without error; with another version
\* or another length the reader raises an error.
C35_WrittenIsReadable ==
  WrittenAndRead =>
    (lib.open <=> /\ given.version \in {LatestFormatVersion, DefaultFormatVersion}
                  /\ Len(payload) = given.nEntries)

\* a file with a header of version 1 and its 2 entries was read back, and
\* no lookup was made yet
C35_Witness ==
  /\ WrittenAndRead
  /\ lib.open
  /\ given.version = LatestFormatVersion
  /\ given.nEntries = 2
  /\ Len(payload) = 2
  /\ \A t \in Threads : lk[t] = NoLookup

\* ------------------------------------------------------------------------
\* C36: a header that setHeader(h) rejects is not retained.  After a
\* setHeader that raised an error the object has no header or the header it
\* had before the call, and no successful writeHeader() or writeFile(data)
\* that follows writes the file header of the rejected h.
\* ------------------------------------------------------------------------
\* the file starts with the bytes w
StartsWith(f, w) == Len(f) >= Len(w) /\ SubSeq(f, 1, Len(w)) = w

C36_RejectedNotRetained ==
  [][/\ fop'.op = "setHeader" /\ ~fop'.ok
          => fHeader' = <<>> \/ fHeader' = fHeader
     /\ setok' = "error" /\ fop'.op \in {"writeHeader", "writeFile"} /\ fop'.ok
          => ~StartsWith(libfile', writeHeader(<<>>, given'))
    ]_vars

\* ------------------------------------------------------------------------
\* A format object on a path where a file may be already: the file is
\* written in one call or in three
\* ------------------------------------------------------------------------
\* what the path holds when the object is made: nothing, the library of two
\* voxels and one channel, or bytes of something else
PriorLibrary ==
  writeFile(<<[header |-> MakeHeader(LatestFormatVersion, <<123, 125>>,
                                     <<2, 1, 1>>, 1, "none"),
               dataOffset |-> NoOffset]>>, Ramp(2, 5)).file

PriorFiles == {<<>>, PriorLibrary, <<1, 2, 3>>}

InitPath ==
  /\ BInit
  /\ fHeader = <<>>
  /\ given = NullHeader
  /\ setok = "none"
  /\ libfile \in PriorFiles
  /\ payload = <<>>
  /\ phase = "setup"
  /\ lib = NoLibrary
  /\ fData = NewStream(farSeek)
  /\ fDataMutex = 0
  /\ lk = [t \in Threads |-> NoLookup]
  /\ exists = (libfile # <<>>)
  /\ fop = NoFormatOp
  /\ reflfile = <<>>

NextPath ==
  \/ SetFormatHeader
  \/ ReadHeader
  \/ WriteHeader
  \/ WriteData
  \/ WriteFooter
  \/ WriteFile

SpecPath == InitPath /\ [][NextPath]_vars

C38_PayloadMatchesSize ==
  last.op = "read" => Len(last.val) = last.size

\* C39: the count checks of fixHeader are exact over the integers: a header
\* that setHeader accepts has nVoxels equal to the product of the three
\* nSteps and nEntries equal to nVoxels times nChannels, also when the
\* products are beyond 32 bits.
C39_ExactCounts ==
  fop.op = "setHeader" /\ fop.ok
    => VoxelsConsistent(given) /\ EntriesConsistent(given)
====
